---- MODULE Spec2Model ----
(***************************************************************************)
(* Verification model of Lean.DataSource.SEC.FailsToDeliver.               *)
(*                                                                         *)
(* The repository holds several run-to-completion batch programs.  Each   *)
(* is modelled as a state machine over its durable state (files on disk)  *)
(* and the position of the running handler.  The variable `prog` names    *)
(* the program a behaviour is about; every program has its own            *)
(* specification (SpecMerge, SpecConvert, SpecExtract, SpecSample, ...).  *)
(*                                                                         *)
(* Text is modelled as sequences of character codes, so that splitting,   *)
(* stripping, parsing and comparing are computed as the code does.        *)
(***************************************************************************)
EXTENDS Integers, Sequences, FiniteSets, TLC

VARIABLES
    prog,       \* which program this behaviour runs
    files,      \* sample.process.py: destination files, by destination
    mw,         \* sample.process.py: the running _save_content_to_file call
    last,       \* sample.process.py: the call completed just before (dest, batch)
    strayTmp,   \* sample.process.py: temp files left in tmp_folder by crashes
    crashes,    \* number of crashes injected so far
    raw,        \* clean.py: the raw source files under dirs["RAW"]
    outCsv,     \* clean.py: the file at out_root.with_suffix(".csv")
    emptyLog,   \* clean.py: the lines of the empty-log
    uz,         \* unzip.py: the result of the last extract_zip_to_dir call
    cv,         \* clean.py: the running convert_txt_csv call
    nz,         \* clean.py: one frame put through the normalisation
    ledgerFile, \* extract.py: the ledger file (DOWNLOADED_JSON)
    zipDir,     \* extract.py, unzip.py: the zip files in downloads_dir, as <<name, content>>
    lastRunFile,\* extract.py: the last-run file
    sp,         \* extract.py: the spider of the running extract_new_zips call
    sr,         \* sample.process.py: the running run() call
    pa,         \* period_parition.py: one record put through the period columns
    dl,         \* sample.process.py: the running _download_binary / _http_get_text call
    cw,         \* sample.process.py: two _save_content_to_file calls on one destination
    sq,         \* sample.process.py: one _save_content_to_file call on probe lines
    rp,         \* sample.process.py: one raw line put through _try_parse_raw_line
    ag,         \* period_parition.py: a store of records put through the aggregation
    gd,         \* sample.process.py: one file name put through _get_processing_date
    ms          \* master.py: the running build_master call

varsMerge == <<files, mw, last, strayTmp, crashes>>
varsConvert == <<raw, outCsv, emptyLog, cv, uz>>
varsExtract == <<ledgerFile, zipDir, lastRunFile, sp>>
vars == <<prog, files, mw, last, strayTmp, crashes, raw, outCsv, emptyLog, cv, uz, nz,
          ledgerFile, zipDir, lastRunFile, sp, sr, pa, dl, cw, sq, rp, ag, gd, ms>>

\* the variables a program leaves alone
notMerge == <<varsConvert, nz, varsExtract, sr, pa, dl, cw, sq, rp, ag, gd, ms>>
notConvert == <<uz, varsMerge, nz, varsExtract, sr, pa, dl, cw, sq, rp, ag, gd, ms>>
notNormalize == <<varsMerge, varsConvert, varsExtract, sr, pa, dl, cw, sq, rp, ag, gd, ms>>
notExtract == <<varsMerge, varsConvert, nz, sr, pa, dl, cw, sq, rp, ag, gd, ms>>
notSample == <<mw, last, strayTmp, crashes, varsConvert, nz, varsExtract, pa, dl, cw, sq, rp, ag, gd, ms>>
notPeriod == <<varsMerge, varsConvert, nz, varsExtract, sr, dl, cw, sq, rp, ag, gd, ms>>
notDownload == <<varsMerge, varsConvert, nz, varsExtract, sr, pa, cw, sq, rp, ag, gd, ms>>
notWriters == <<varsMerge, varsConvert, nz, varsExtract, sr, pa, dl, sq, rp, ag, gd, ms>>
notParse == <<varsMerge, varsConvert, nz, varsExtract, sr, pa, dl, cw, sq, ag, gd, ms>>
notAggregate == <<varsMerge, varsConvert, nz, varsExtract, sr, pa, dl, cw, sq, rp, gd, ms>>
notProcDate == <<varsMerge, varsConvert, nz, varsExtract, sr, pa, dl, cw, sq, rp, ag, ms>>
notMaster == <<varsMerge, varsConvert, nz, varsExtract, sr, pa, dl, cw, sq, rp, ag, gd>>
notSortProbe == <<varsMerge, varsConvert, nz, varsExtract, sr, pa, dl, cw, rp, ag, gd, ms>>

\* the values of a program's variables in behaviours of the other programs
MergeOff ==
    /\ files = <<>> /\ mw = <<>> /\ last = <<>> /\ strayTmp = 0 /\ crashes = 0

ConvertOff ==
    /\ raw = <<>> /\ outCsv = <<>> /\ emptyLog = <<>> /\ cv = <<>> /\ uz = <<>>

NormalizeOff == nz = <<>>

ExtractOff ==
    /\ ledgerFile = <<>> /\ zipDir = {} /\ lastRunFile = <<>> /\ sp = <<>>

SampleOff == sr = <<>>

PeriodOff == pa = <<>>

DownloadOff == dl = <<>>

WritersOff == cw = <<>>

SortProbeOff == sq = <<>>

ParseOff == rp = <<>>

AggregateOff == ag = <<>>

ProcDateOff == gd = <<>>

MasterOff == ms = <<>>

LateOff == ParseOff /\ AggregateOff /\ ProcDateOff /\ MasterOff

\* the programs of the later sections are not running
ProbesOff == PeriodOff /\ DownloadOff /\ WritersOff /\ SortProbeOff /\ LateOff

-----------------------------------------------------------------------------
(* Text helpers.                                                           *)

\* the character "," that separates the fields of a stored line
Comma == 44

\* the code points of the digit zero of every run of Unicode decimal digits
\* (category Nd, Unicode 14): each run is ten consecutive code points
DecimalZeros ==
    {48, 1632, 1776, 1984, 2406, 2534, 2662, 2790, 2918, 3046, 3174, 3302, 3430,
     3558, 3664, 3792, 3872, 4160, 4240, 6112, 6160, 6470, 6608, 6784, 6800, 6992,
     7088, 7232, 7248, 42528, 43216, 43264, 43472, 43504, 43600, 44016, 65296,
     66720, 68912, 69734, 69872, 69942, 70096, 70384, 70736, 70864, 71248, 71360,
     71472, 71904, 72016, 72784, 73040, 73120, 92768, 92864, 93008, 120782,
     120792, 120802, 120812, 120822, 123200, 123632, 125264, 130032}

\* \d of a str pattern, and the characters int() takes as digits
IsDigit(c) == \E z \in DecimalZeros : c \in z..(z + 9)

\* the value int() gives a decimal digit
DigitVal(c) == c - (CHOOSE z \in DecimalZeros : c \in z..(z + 9))

RECURSIVE StrLess(_, _)
\* Python's str <: lexicographic by code point, a proper prefix is smaller
StrLess(a, b) ==
    IF b = <<>> THEN FALSE
    ELSE IF a = <<>> THEN TRUE
    ELSE IF a[1] # b[1] THEN a[1] < b[1]
    ELSE StrLess(Tail(a), Tail(b))

StrLeq(a, b) == a = b \/ StrLess(a, b)

RECURSIVE FirstField(_)
\* row.split(",")[0]
FirstField(row) ==
    IF row = <<>> \/ row[1] = Comma THEN <<>>
    ELSE <<row[1]>> \o FirstField(Tail(row))

\* the characters str.isalnum() holds for (letters, decimal digits, digits and
\* numerics of Unicode 14), as <<first, last>> ranges of code points
AlnumRanges ==
    {<<48, 57>>, <<65, 90>>, <<97, 122>>, <<170, 170>>, <<178, 179>>, <<181, 181>>,
     <<185, 186>>, <<188, 190>>, <<192, 214>>, <<216, 246>>, <<248, 705>>, <<710, 721>>,
     <<736, 740>>, <<748, 748>>, <<750, 750>>, <<880, 884>>, <<886, 887>>, <<890, 893>>,
     <<895, 895>>, <<902, 902>>, <<904, 906>>, <<908, 908>>, <<910, 929>>, <<931, 1013>>,
     <<1015, 1153>>, <<1162, 1327>>, <<1329, 1366>>, <<1369, 1369>>, <<1376, 1416>>,
     <<1488, 1514>>, <<1519, 1522>>, <<1568, 1610>>, <<1632, 1641>>, <<1646, 1647>>,
     <<1649, 1747>>, <<1749, 1749>>, <<1765, 1766>>, <<1774, 1788>>, <<1791, 1791>>,
     <<1808, 1808>>, <<1810, 1839>>, <<1869, 1957>>, <<1969, 1969>>, <<1984, 2026>>,
     <<2036, 2037>>, <<2042, 2042>>, <<2048, 2069>>, <<2074, 2074>>, <<2084, 2084>>,
     <<2088, 2088>>, <<2112, 2136>>, <<2144, 2154>>, <<2160, 2183>>, <<2185, 2190>>,
     <<2208, 2249>>, <<2308, 2361>>, <<2365, 2365>>, <<2384, 2384>>, <<2392, 2401>>,
     <<2406, 2415>>, <<2417, 2432>>, <<2437, 2444>>, <<2447, 2448>>, <<2451, 2472>>,
     <<2474, 2480>>, <<2482, 2482>>, <<2486, 2489>>, <<2493, 2493>>, <<2510, 2510>>,
     <<2524, 2525>>, <<2527, 2529>>, <<2534, 2545>>, <<2548, 2553>>, <<2556, 2556>>,
     <<2565, 2570>>, <<2575, 2576>>, <<2579, 2600>>, <<2602, 2608>>, <<2610, 2611>>,
     <<2613, 2614>>, <<2616, 2617>>, <<2649, 2652>>, <<2654, 2654>>, <<2662, 2671>>,
     <<2674, 2676>>, <<2693, 2701>>, <<2703, 2705>>, <<2707, 2728>>, <<2730, 2736>>,
     <<2738, 2739>>, <<2741, 2745>>, <<2749, 2749>>, <<2768, 2768>>, <<2784, 2785>>,
     <<2790, 2799>>, <<2809, 2809>>, <<2821, 2828>>, <<2831, 2832>>, <<2835, 2856>>,
     <<2858, 2864>>, <<2866, 2867>>, <<2869, 2873>>, <<2877, 2877>>, <<2908, 2909>>,
     <<2911, 2913>>, <<2918, 2927>>, <<2929, 2935>>, <<2947, 2947>>, <<2949, 2954>>,
     <<2958, 2960>>, <<2962, 2965>>, <<2969, 2970>>, <<2972, 2972>>, <<2974, 2975>>,
     <<2979, 2980>>, <<2984, 2986>>, <<2990, 3001>>, <<3024, 3024>>, <<3046, 3058>>,
     <<3077, 3084>>, <<3086, 3088>>, <<3090, 3112>>, <<3114, 3129>>, <<3133, 3133>>,
     <<3160, 3162>>, <<3165, 3165>>, <<3168, 3169>>, <<3174, 3183>>, <<3192, 3198>>,
     <<3200, 3200>>, <<3205, 3212>>, <<3214, 3216>>, <<3218, 3240>>, <<3242, 3251>>,
     <<3253, 3257>>, <<3261, 3261>>, <<3293, 3294>>, <<3296, 3297>>, <<3302, 3311>>,
     <<3313, 3314>>, <<3332, 3340>>, <<3342, 3344>>, <<3346, 3386>>, <<3389, 3389>>,
     <<3406, 3406>>, <<3412, 3414>>, <<3416, 3425>>, <<3430, 3448>>, <<3450, 3455>>,
     <<3461, 3478>>, <<3482, 3505>>, <<3507, 3515>>, <<3517, 3517>>, <<3520, 3526>>,
     <<3558, 3567>>, <<3585, 3632>>, <<3634, 3635>>, <<3648, 3654>>, <<3664, 3673>>,
     <<3713, 3714>>, <<3716, 3716>>, <<3718, 3722>>, <<3724, 3747>>, <<3749, 3749>>,
     <<3751, 3760>>, <<3762, 3763>>, <<3773, 3773>>, <<3776, 3780>>, <<3782, 3782>>,
     <<3792, 3801>>, <<3804, 3807>>, <<3840, 3840>>, <<3872, 3891>>, <<3904, 3911>>,
     <<3913, 3948>>, <<3976, 3980>>, <<4096, 4138>>, <<4159, 4169>>, <<4176, 4181>>,
     <<4186, 4189>>, <<4193, 4193>>, <<4197, 4198>>, <<4206, 4208>>, <<4213, 4225>>,
     <<4238, 4238>>, <<4240, 4249>>, <<4256, 4293>>, <<4295, 4295>>, <<4301, 4301>>,
     <<4304, 4346>>, <<4348, 4680>>, <<4682, 4685>>, <<4688, 4694>>, <<4696, 4696>>,
     <<4698, 4701>>, <<4704, 4744>>, <<4746, 4749>>, <<4752, 4784>>, <<4786, 4789>>,
     <<4792, 4798>>, <<4800, 4800>>, <<4802, 4805>>, <<4808, 4822>>, <<4824, 4880>>,
     <<4882, 4885>>, <<4888, 4954>>, <<4969, 4988>>, <<4992, 5007>>, <<5024, 5109>>,
     <<5112, 5117>>, <<5121, 5740>>, <<5743, 5759>>, <<5761, 5786>>, <<5792, 5866>>,
     <<5870, 5880>>, <<5888, 5905>>, <<5919, 5937>>, <<5952, 5969>>, <<5984, 5996>>,
     <<5998, 6000>>, <<6016, 6067>>, <<6103, 6103>>, <<6108, 6108>>, <<6112, 6121>>,
     <<6128, 6137>>, <<6160, 6169>>, <<6176, 6264>>, <<6272, 6276>>, <<6279, 6312>>,
     <<6314, 6314>>, <<6320, 6389>>, <<6400, 6430>>, <<6470, 6509>>, <<6512, 6516>>,
     <<6528, 6571>>, <<6576, 6601>>, <<6608, 6618>>, <<6656, 6678>>, <<6688, 6740>>,
     <<6784, 6793>>, <<6800, 6809>>, <<6823, 6823>>, <<6917, 6963>>, <<6981, 6988>>,
     <<6992, 7001>>, <<7043, 7072>>, <<7086, 7141>>, <<7168, 7203>>, <<7232, 7241>>,
     <<7245, 7293>>, <<7296, 7304>>, <<7312, 7354>>, <<7357, 7359>>, <<7401, 7404>>,
     <<7406, 7411>>, <<7413, 7414>>, <<7418, 7418>>, <<7424, 7615>>, <<7680, 7957>>,
     <<7960, 7965>>, <<7968, 8005>>, <<8008, 8013>>, <<8016, 8023>>, <<8025, 8025>>,
     <<8027, 8027>>, <<8029, 8029>>, <<8031, 8061>>, <<8064, 8116>>, <<8118, 8124>>,
     <<8126, 8126>>, <<8130, 8132>>, <<8134, 8140>>, <<8144, 8147>>, <<8150, 8155>>,
     <<8160, 8172>>, <<8178, 8180>>, <<8182, 8188>>, <<8304, 8305>>, <<8308, 8313>>,
     <<8319, 8329>>, <<8336, 8348>>, <<8450, 8450>>, <<8455, 8455>>, <<8458, 8467>>,
     <<8469, 8469>>, <<8473, 8477>>, <<8484, 8484>>, <<8486, 8486>>, <<8488, 8488>>,
     <<8490, 8493>>, <<8495, 8505>>, <<8508, 8511>>, <<8517, 8521>>, <<8526, 8526>>,
     <<8528, 8585>>, <<9312, 9371>>, <<9450, 9471>>, <<10102, 10131>>, <<11264, 11492>>,
     <<11499, 11502>>, <<11506, 11507>>, <<11517, 11517>>, <<11520, 11557>>, <<11559,
     11559>>, <<11565, 11565>>, <<11568, 11623>>, <<11631, 11631>>, <<11648, 11670>>,
     <<11680, 11686>>, <<11688, 11694>>, <<11696, 11702>>, <<11704, 11710>>, <<11712,
     11718>>, <<11720, 11726>>, <<11728, 11734>>, <<11736, 11742>>, <<11823, 11823>>,
     <<12293, 12295>>, <<12321, 12329>>, <<12337, 12341>>, <<12344, 12348>>, <<12353,
     12438>>, <<12445, 12447>>, <<12449, 12538>>, <<12540, 12543>>, <<12549, 12591>>,
     <<12593, 12686>>, <<12690, 12693>>, <<12704, 12735>>, <<12784, 12799>>, <<12832,
     12841>>, <<12872, 12879>>, <<12881, 12895>>, <<12928, 12937>>, <<12977, 12991>>,
     <<13312, 19903>>, <<19968, 42124>>, <<42192, 42237>>, <<42240, 42508>>, <<42512,
     42539>>, <<42560, 42606>>, <<42623, 42653>>, <<42656, 42735>>, <<42775, 42783>>,
     <<42786, 42888>>, <<42891, 42954>>, <<42960, 42961>>, <<42963, 42963>>, <<42965,
     42969>>, <<42994, 43009>>, <<43011, 43013>>, <<43015, 43018>>, <<43020, 43042>>,
     <<43056, 43061>>, <<43072, 43123>>, <<43138, 43187>>, <<43216, 43225>>, <<43250,
     43255>>, <<43259, 43259>>, <<43261, 43262>>, <<43264, 43301>>, <<43312, 43334>>,
     <<43360, 43388>>, <<43396, 43442>>, <<43471, 43481>>, <<43488, 43492>>, <<43494,
     43518>>, <<43520, 43560>>, <<43584, 43586>>, <<43588, 43595>>, <<43600, 43609>>,
     <<43616, 43638>>, <<43642, 43642>>, <<43646, 43695>>, <<43697, 43697>>, <<43701,
     43702>>, <<43705, 43709>>, <<43712, 43712>>, <<43714, 43714>>, <<43739, 43741>>,
     <<43744, 43754>>, <<43762, 43764>>, <<43777, 43782>>, <<43785, 43790>>, <<43793,
     43798>>, <<43808, 43814>>, <<43816, 43822>>, <<43824, 43866>>, <<43868, 43881>>,
     <<43888, 44002>>, <<44016, 44025>>, <<44032, 55203>>, <<55216, 55238>>, <<55243,
     55291>>, <<63744, 64109>>, <<64112, 64217>>, <<64256, 64262>>, <<64275, 64279>>,
     <<64285, 64285>>, <<64287, 64296>>, <<64298, 64310>>, <<64312, 64316>>, <<64318,
     64318>>, <<64320, 64321>>, <<64323, 64324>>, <<64326, 64433>>, <<64467, 64829>>,
     <<64848, 64911>>, <<64914, 64967>>, <<65008, 65019>>, <<65136, 65140>>, <<65142,
     65276>>, <<65296, 65305>>, <<65313, 65338>>, <<65345, 65370>>, <<65382, 65470>>,
     <<65474, 65479>>, <<65482, 65487>>, <<65490, 65495>>, <<65498, 65500>>, <<65536,
     65547>>, <<65549, 65574>>, <<65576, 65594>>, <<65596, 65597>>, <<65599, 65613>>,
     <<65616, 65629>>, <<65664, 65786>>, <<65799, 65843>>, <<65856, 65912>>, <<65930,
     65931>>, <<66176, 66204>>, <<66208, 66256>>, <<66273, 66299>>, <<66304, 66339>>,
     <<66349, 66378>>, <<66384, 66421>>, <<66432, 66461>>, <<66464, 66499>>, <<66504,
     66511>>, <<66513, 66517>>, <<66560, 66717>>, <<66720, 66729>>, <<66736, 66771>>,
     <<66776, 66811>>, <<66816, 66855>>, <<66864, 66915>>, <<66928, 66938>>, <<66940,
     66954>>, <<66956, 66962>>, <<66964, 66965>>, <<66967, 66977>>, <<66979, 66993>>,
     <<66995, 67001>>, <<67003, 67004>>, <<67072, 67382>>, <<67392, 67413>>, <<67424,
     67431>>, <<67456, 67461>>, <<67463, 67504>>, <<67506, 67514>>, <<67584, 67589>>,
     <<67592, 67592>>, <<67594, 67637>>, <<67639, 67640>>, <<67644, 67644>>, <<67647,
     67669>>, <<67672, 67702>>, <<67705, 67742>>, <<67751, 67759>>, <<67808, 67826>>,
     <<67828, 67829>>, <<67835, 67867>>, <<67872, 67897>>, <<67968, 68023>>, <<68028,
     68047>>, <<68050, 68096>>, <<68112, 68115>>, <<68117, 68119>>, <<68121, 68149>>,
     <<68160, 68168>>, <<68192, 68222>>, <<68224, 68255>>, <<68288, 68295>>, <<68297,
     68324>>, <<68331, 68335>>, <<68352, 68405>>, <<68416, 68437>>, <<68440, 68466>>,
     <<68472, 68497>>, <<68521, 68527>>, <<68608, 68680>>, <<68736, 68786>>, <<68800,
     68850>>, <<68858, 68899>>, <<68912, 68921>>, <<69216, 69246>>, <<69248, 69289>>,
     <<69296, 69297>>, <<69376, 69415>>, <<69424, 69445>>, <<69457, 69460>>, <<69488,
     69505>>, <<69552, 69579>>, <<69600, 69622>>, <<69635, 69687>>, <<69714, 69743>>,
     <<69745, 69746>>, <<69749, 69749>>, <<69763, 69807>>, <<69840, 69864>>, <<69872,
     69881>>, <<69891, 69926>>, <<69942, 69951>>, <<69956, 69956>>, <<69959, 69959>>,
     <<69968, 70002>>, <<70006, 70006>>, <<70019, 70066>>, <<70081, 70084>>, <<70096,
     70106>>, <<70108, 70108>>, <<70113, 70132>>, <<70144, 70161>>, <<70163, 70187>>,
     <<70272, 70278>>, <<70280, 70280>>, <<70282, 70285>>, <<70287, 70301>>, <<70303,
     70312>>, <<70320, 70366>>, <<70384, 70393>>, <<70405, 70412>>, <<70415, 70416>>,
     <<70419, 70440>>, <<70442, 70448>>, <<70450, 70451>>, <<70453, 70457>>, <<70461,
     70461>>, <<70480, 70480>>, <<70493, 70497>>, <<70656, 70708>>, <<70727, 70730>>,
     <<70736, 70745>>, <<70751, 70753>>, <<70784, 70831>>, <<70852, 70853>>, <<70855,
     70855>>, <<70864, 70873>>, <<71040, 71086>>, <<71128, 71131>>, <<71168, 71215>>,
     <<71236, 71236>>, <<71248, 71257>>, <<71296, 71338>>, <<71352, 71352>>, <<71360,
     71369>>, <<71424, 71450>>, <<71472, 71483>>, <<71488, 71494>>, <<71680, 71723>>,
     <<71840, 71922>>, <<71935, 71942>>, <<71945, 71945>>, <<71948, 71955>>, <<71957,
     71958>>, <<71960, 71983>>, <<71999, 71999>>, <<72001, 72001>>, <<72016, 72025>>,
     <<72096, 72103>>, <<72106, 72144>>, <<72161, 72161>>, <<72163, 72163>>, <<72192,
     72192>>, <<72203, 72242>>, <<72250, 72250>>, <<72272, 72272>>, <<72284, 72329>>,
     <<72349, 72349>>, <<72368, 72440>>, <<72704, 72712>>, <<72714, 72750>>, <<72768,
     72768>>, <<72784, 72812>>, <<72818, 72847>>, <<72960, 72966>>, <<72968, 72969>>,
     <<72971, 73008>>, <<73030, 73030>>, <<73040, 73049>>, <<73056, 73061>>, <<73063,
     73064>>, <<73066, 73097>>, <<73112, 73112>>, <<73120, 73129>>, <<73440, 73458>>,
     <<73648, 73648>>, <<73664, 73684>>, <<73728, 74649>>, <<74752, 74862>>, <<74880,
     75075>>, <<77712, 77808>>, <<77824, 78894>>, <<82944, 83526>>, <<92160, 92728>>,
     <<92736, 92766>>, <<92768, 92777>>, <<92784, 92862>>, <<92864, 92873>>, <<92880,
     92909>>, <<92928, 92975>>, <<92992, 92995>>, <<93008, 93017>>, <<93019, 93025>>,
     <<93027, 93047>>, <<93053, 93071>>, <<93760, 93846>>, <<93952, 94026>>, <<94032,
     94032>>, <<94099, 94111>>, <<94176, 94177>>, <<94179, 94179>>, <<94208, 100343>>,
     <<100352, 101589>>, <<101632, 101640>>, <<110576, 110579>>, <<110581, 110587>>,
     <<110589, 110590>>, <<110592, 110882>>, <<110928, 110930>>, <<110948, 110951>>,
     <<110960, 111355>>, <<113664, 113770>>, <<113776, 113788>>, <<113792, 113800>>,
     <<113808, 113817>>, <<119520, 119539>>, <<119648, 119672>>, <<119808, 119892>>,
     <<119894, 119964>>, <<119966, 119967>>, <<119970, 119970>>, <<119973, 119974>>,
     <<119977, 119980>>, <<119982, 119993>>, <<119995, 119995>>, <<119997, 120003>>,
     <<120005, 120069>>, <<120071, 120074>>, <<120077, 120084>>, <<120086, 120092>>,
     <<120094, 120121>>, <<120123, 120126>>, <<120128, 120132>>, <<120134, 120134>>,
     <<120138, 120144>>, <<120146, 120485>>, <<120488, 120512>>, <<120514, 120538>>,
     <<120540, 120570>>, <<120572, 120596>>, <<120598, 120628>>, <<120630, 120654>>,
     <<120656, 120686>>, <<120688, 120712>>, <<120714, 120744>>, <<120746, 120770>>,
     <<120772, 120779>>, <<120782, 120831>>, <<122624, 122654>>, <<123136, 123180>>,
     <<123191, 123197>>, <<123200, 123209>>, <<123214, 123214>>, <<123536, 123565>>,
     <<123584, 123627>>, <<123632, 123641>>, <<124896, 124902>>, <<124904, 124907>>,
     <<124909, 124910>>, <<124912, 124926>>, <<124928, 125124>>, <<125127, 125135>>,
     <<125184, 125251>>, <<125259, 125259>>, <<125264, 125273>>, <<126065, 126123>>,
     <<126125, 126127>>, <<126129, 126132>>, <<126209, 126253>>, <<126255, 126269>>,
     <<126464, 126467>>, <<126469, 126495>>, <<126497, 126498>>, <<126500, 126500>>,
     <<126503, 126503>>, <<126505, 126514>>, <<126516, 126519>>, <<126521, 126521>>,
     <<126523, 126523>>, <<126530, 126530>>, <<126535, 126535>>, <<126537, 126537>>,
     <<126539, 126539>>, <<126541, 126543>>, <<126545, 126546>>, <<126548, 126548>>,
     <<126551, 126551>>, <<126553, 126553>>, <<126555, 126555>>, <<126557, 126557>>,
     <<126559, 126559>>, <<126561, 126562>>, <<126564, 126564>>, <<126567, 126570>>,
     <<126572, 126578>>, <<126580, 126583>>, <<126585, 126588>>, <<126590, 126590>>,
     <<126592, 126601>>, <<126603, 126619>>, <<126625, 126627>>, <<126629, 126633>>,
     <<126635, 126651>>, <<127232, 127244>>, <<130032, 130041>>, <<131072, 173791>>,
     <<173824, 177976>>, <<177984, 178205>>, <<178208, 183969>>, <<183984, 191456>>,
     <<194560, 195101>>, <<196608, 201546>>}

InRanges(c, ranges) == \E r \in ranges : r[1] <= c /\ c <= r[2]

\* ch.isalnum()
IsAlnum(c) == InRanges(c, AlnumRanges)

\* the characters whose upper case is one other character, as
\* <<first, last, step, delta>>: every step-th code point from first to last
\* maps to itself plus delta
UpperRuns ==
    {<<97, 122, 1, -32>>, <<181, 181, 1, 743>>, <<224, 246, 1, -32>>, <<248, 254, 1,
     -32>>, <<255, 255, 1, 121>>, <<257, 303, 2, -1>>, <<305, 305, 1, -232>>, <<307, 311,
     2, -1>>, <<314, 328, 2, -1>>, <<331, 375, 2, -1>>, <<378, 382, 2, -1>>, <<383, 383,
     1, -300>>, <<384, 384, 1, 195>>, <<387, 389, 2, -1>>, <<392, 392, 1, -1>>, <<396,
     396, 1, -1>>, <<402, 402, 1, -1>>, <<405, 405, 1, 97>>, <<409, 409, 1, -1>>, <<410,
     410, 1, 163>>, <<414, 414, 1, 130>>, <<417, 421, 2, -1>>, <<424, 424, 1, -1>>,
     <<429, 429, 1, -1>>, <<432, 432, 1, -1>>, <<436, 438, 2, -1>>, <<441, 441, 1, -1>>,
     <<445, 445, 1, -1>>, <<447, 447, 1, 56>>, <<453, 453, 1, -1>>, <<454, 454, 1, -2>>,
     <<456, 456, 1, -1>>, <<457, 457, 1, -2>>, <<459, 459, 1, -1>>, <<460, 460, 1, -2>>,
     <<462, 476, 2, -1>>, <<477, 477, 1, -79>>, <<479, 495, 2, -1>>, <<498, 498, 1, -1>>,
     <<499, 499, 1, -2>>, <<501, 501, 1, -1>>, <<505, 543, 2, -1>>, <<547, 563, 2, -1>>,
     <<572, 572, 1, -1>>, <<575, 576, 1, 10815>>, <<578, 578, 1, -1>>, <<583, 591, 2,
     -1>>, <<592, 592, 1, 10783>>, <<593, 593, 1, 10780>>, <<594, 594, 1, 10782>>, <<595,
     595, 1, -210>>, <<596, 596, 1, -206>>, <<598, 599, 1, -205>>, <<601, 601, 1, -202>>,
     <<603, 603, 1, -203>>, <<604, 604, 1, 42319>>, <<608, 608, 1, -205>>, <<609, 609, 1,
     42315>>, <<611, 611, 1, -207>>, <<613, 613, 1, 42280>>, <<614, 614, 1, 42308>>,
     <<616, 616, 1, -209>>, <<617, 617, 1, -211>>, <<618, 618, 1, 42308>>, <<619, 619, 1,
     10743>>, <<620, 620, 1, 42305>>, <<623, 623, 1, -211>>, <<625, 625, 1, 10749>>,
     <<626, 626, 1, -213>>, <<629, 629, 1, -214>>, <<637, 637, 1, 10727>>, <<640, 640, 1,
     -218>>, <<642, 642, 1, 42307>>, <<643, 643, 1, -218>>, <<647, 647, 1, 42282>>,
     <<648, 648, 1, -218>>, <<649, 649, 1, -69>>, <<650, 651, 1, -217>>, <<652, 652, 1,
     -71>>, <<658, 658, 1, -219>>, <<669, 669, 1, 42261>>, <<670, 670, 1, 42258>>, <<837,
     837, 1, 84>>, <<881, 883, 2, -1>>, <<887, 887, 1, -1>>, <<891, 893, 1, 130>>, <<940,
     940, 1, -38>>, <<941, 943, 1, -37>>, <<945, 961, 1, -32>>, <<962, 962, 1, -31>>,
     <<963, 971, 1, -32>>, <<972, 972, 1, -64>>, <<973, 974, 1, -63>>, <<976, 976, 1,
     -62>>, <<977, 977, 1, -57>>, <<981, 981, 1, -47>>, <<982, 982, 1, -54>>, <<983, 983,
     1, -8>>, <<985, 1007, 2, -1>>, <<1008, 1008, 1, -86>>, <<1009, 1009, 1, -80>>,
     <<1010, 1010, 1, 7>>, <<1011, 1011, 1, -116>>, <<1013, 1013, 1, -96>>, <<1016, 1016,
     1, -1>>, <<1019, 1019, 1, -1>>, <<1072, 1103, 1, -32>>, <<1104, 1119, 1, -80>>,
     <<1121, 1153, 2, -1>>, <<1163, 1215, 2, -1>>, <<1218, 1230, 2, -1>>, <<1231, 1231,
     1, -15>>, <<1233, 1327, 2, -1>>, <<1377, 1414, 1, -48>>, <<4304, 4346, 1, 3008>>,
     <<4349, 4351, 1, 3008>>, <<5112, 5117, 1, -8>>, <<7296, 7296, 1, -6254>>, <<7297,
     7297, 1, -6253>>, <<7298, 7298, 1, -6244>>, <<7299, 7300, 1, -6242>>, <<7301, 7301,
     1, -6243>>, <<7302, 7302, 1, -6236>>, <<7303, 7303, 1, -6181>>, <<7304, 7304, 1,
     35266>>, <<7545, 7545, 1, 35332>>, <<7549, 7549, 1, 3814>>, <<7566, 7566, 1,
     35384>>, <<7681, 7829, 2, -1>>, <<7835, 7835, 1, -59>>, <<7841, 7935, 2, -1>>,
     <<7936, 7943, 1, 8>>, <<7952, 7957, 1, 8>>, <<7968, 7975, 1, 8>>, <<7984, 7991, 1,
     8>>, <<8000, 8005, 1, 8>>, <<8017, 8023, 2, 8>>, <<8032, 8039, 1, 8>>, <<8048, 8049,
     1, 74>>, <<8050, 8053, 1, 86>>, <<8054, 8055, 1, 100>>, <<8056, 8057, 1, 128>>,
     <<8058, 8059, 1, 112>>, <<8060, 8061, 1, 126>>, <<8112, 8113, 1, 8>>, <<8126, 8126,
     1, -7205>>, <<8144, 8145, 1, 8>>, <<8160, 8161, 1, 8>>, <<8165, 8165, 1, 7>>,
     <<8526, 8526, 1, -28>>, <<8560, 8575, 1, -16>>, <<8580, 8580, 1, -1>>, <<9424, 9449,
     1, -26>>, <<11312, 11359, 1, -48>>, <<11361, 11361, 1, -1>>, <<11365, 11365, 1,
     -10795>>, <<11366, 11366, 1, -10792>>, <<11368, 11372, 2, -1>>, <<11379, 11379, 1,
     -1>>, <<11382, 11382, 1, -1>>, <<11393, 11491, 2, -1>>, <<11500, 11502, 2, -1>>,
     <<11507, 11507, 1, -1>>, <<11520, 11557, 1, -7264>>, <<11559, 11559, 1, -7264>>,
     <<11565, 11565, 1, -7264>>, <<42561, 42605, 2, -1>>, <<42625, 42651, 2, -1>>,
     <<42787, 42799, 2, -1>>, <<42803, 42863, 2, -1>>, <<42874, 42876, 2, -1>>, <<42879,
     42887, 2, -1>>, <<42892, 42892, 1, -1>>, <<42897, 42899, 2, -1>>, <<42900, 42900, 1,
     48>>, <<42903, 42921, 2, -1>>, <<42933, 42947, 2, -1>>, <<42952, 42954, 2, -1>>,
     <<42961, 42961, 1, -1>>, <<42967, 42969, 2, -1>>, <<42998, 42998, 1, -1>>, <<43859,
     43859, 1, -928>>, <<43888, 43967, 1, -38864>>, <<65345, 65370, 1, -32>>, <<66600,
     66639, 1, -40>>, <<66776, 66811, 1, -40>>, <<66967, 66977, 1, -39>>, <<66979, 66993,
     1, -39>>, <<66995, 67001, 1, -39>>, <<67003, 67004, 1, -39>>, <<68800, 68850, 1,
     -64>>, <<71872, 71903, 1, -32>>, <<93792, 93823, 1, -32>>, <<125218, 125251, 1,
     -34>>}

\* the characters whose upper case is more than one character
UpperSpecial ==
    {<<223, <<83, 83>>>>, <<329, <<700, 78>>>>, <<496, <<74, 780>>>>, <<912, <<921, 776,
     769>>>>, <<944, <<933, 776, 769>>>>, <<1415, <<1333, 1362>>>>, <<7830, <<72,
     817>>>>, <<7831, <<84, 776>>>>, <<7832, <<87, 778>>>>, <<7833, <<89, 778>>>>,
     <<7834, <<65, 702>>>>, <<8016, <<933, 787>>>>, <<8018, <<933, 787, 768>>>>, <<8020,
     <<933, 787, 769>>>>, <<8022, <<933, 787, 834>>>>, <<8064, <<7944, 921>>>>, <<8065,
     <<7945, 921>>>>, <<8066, <<7946, 921>>>>, <<8067, <<7947, 921>>>>, <<8068, <<7948,
     921>>>>, <<8069, <<7949, 921>>>>, <<8070, <<7950, 921>>>>, <<8071, <<7951, 921>>>>,
     <<8072, <<7944, 921>>>>, <<8073, <<7945, 921>>>>, <<8074, <<7946, 921>>>>, <<8075,
     <<7947, 921>>>>, <<8076, <<7948, 921>>>>, <<8077, <<7949, 921>>>>, <<8078, <<7950,
     921>>>>, <<8079, <<7951, 921>>>>, <<8080, <<7976, 921>>>>, <<8081, <<7977, 921>>>>,
     <<8082, <<7978, 921>>>>, <<8083, <<7979, 921>>>>, <<8084, <<7980, 921>>>>, <<8085,
     <<7981, 921>>>>, <<8086, <<7982, 921>>>>, <<8087, <<7983, 921>>>>, <<8088, <<7976,
     921>>>>, <<8089, <<7977, 921>>>>, <<8090, <<7978, 921>>>>, <<8091, <<7979, 921>>>>,
     <<8092, <<7980, 921>>>>, <<8093, <<7981, 921>>>>, <<8094, <<7982, 921>>>>, <<8095,
     <<7983, 921>>>>, <<8096, <<8040, 921>>>>, <<8097, <<8041, 921>>>>, <<8098, <<8042,
     921>>>>, <<8099, <<8043, 921>>>>, <<8100, <<8044, 921>>>>, <<8101, <<8045, 921>>>>,
     <<8102, <<8046, 921>>>>, <<8103, <<8047, 921>>>>, <<8104, <<8040, 921>>>>, <<8105,
     <<8041, 921>>>>, <<8106, <<8042, 921>>>>, <<8107, <<8043, 921>>>>, <<8108, <<8044,
     921>>>>, <<8109, <<8045, 921>>>>, <<8110, <<8046, 921>>>>, <<8111, <<8047, 921>>>>,
     <<8114, <<8122, 921>>>>, <<8115, <<913, 921>>>>, <<8116, <<902, 921>>>>, <<8118,
     <<913, 834>>>>, <<8119, <<913, 834, 921>>>>, <<8124, <<913, 921>>>>, <<8130, <<8138,
     921>>>>, <<8131, <<919, 921>>>>, <<8132, <<905, 921>>>>, <<8134, <<919, 834>>>>,
     <<8135, <<919, 834, 921>>>>, <<8140, <<919, 921>>>>, <<8146, <<921, 776, 768>>>>,
     <<8147, <<921, 776, 769>>>>, <<8150, <<921, 834>>>>, <<8151, <<921, 776, 834>>>>,
     <<8162, <<933, 776, 768>>>>, <<8163, <<933, 776, 769>>>>, <<8164, <<929, 787>>>>,
     <<8166, <<933, 834>>>>, <<8167, <<933, 776, 834>>>>, <<8178, <<8186, 921>>>>,
     <<8179, <<937, 921>>>>, <<8180, <<911, 921>>>>, <<8182, <<937, 834>>>>, <<8183,
     <<937, 834, 921>>>>, <<8188, <<937, 921>>>>, <<64256, <<70, 70>>>>, <<64257, <<70,
     73>>>>, <<64258, <<70, 76>>>>, <<64259, <<70, 70, 73>>>>, <<64260, <<70, 70, 76>>>>,
     <<64261, <<83, 84>>>>, <<64262, <<83, 84>>>>, <<64275, <<1348, 1350>>>>, <<64276,
     <<1348, 1333>>>>, <<64277, <<1348, 1339>>>>, <<64278, <<1358, 1350>>>>, <<64279,
     <<1348, 1341>>>>}

\* the characters whose lower case is one other character
LowerRuns ==
    {<<65, 90, 1, 32>>, <<192, 214, 1, 32>>, <<216, 222, 1, 32>>, <<256, 302, 2, 1>>,
     <<306, 310, 2, 1>>, <<313, 327, 2, 1>>, <<330, 374, 2, 1>>, <<376, 376, 1, -121>>,
     <<377, 381, 2, 1>>, <<385, 385, 1, 210>>, <<386, 388, 2, 1>>, <<390, 390, 1, 206>>,
     <<391, 391, 1, 1>>, <<393, 394, 1, 205>>, <<395, 395, 1, 1>>, <<398, 398, 1, 79>>,
     <<399, 399, 1, 202>>, <<400, 400, 1, 203>>, <<401, 401, 1, 1>>, <<403, 403, 1,
     205>>, <<404, 404, 1, 207>>, <<406, 406, 1, 211>>, <<407, 407, 1, 209>>, <<408, 408,
     1, 1>>, <<412, 412, 1, 211>>, <<413, 413, 1, 213>>, <<415, 415, 1, 214>>, <<416,
     420, 2, 1>>, <<422, 422, 1, 218>>, <<423, 423, 1, 1>>, <<425, 425, 1, 218>>, <<428,
     428, 1, 1>>, <<430, 430, 1, 218>>, <<431, 431, 1, 1>>, <<433, 434, 1, 217>>, <<435,
     437, 2, 1>>, <<439, 439, 1, 219>>, <<440, 440, 1, 1>>, <<444, 444, 1, 1>>, <<452,
     452, 1, 2>>, <<453, 453, 1, 1>>, <<455, 455, 1, 2>>, <<456, 456, 1, 1>>, <<458, 458,
     1, 2>>, <<459, 475, 2, 1>>, <<478, 494, 2, 1>>, <<497, 497, 1, 2>>, <<498, 500, 2,
     1>>, <<502, 502, 1, -97>>, <<503, 503, 1, -56>>, <<504, 542, 2, 1>>, <<544, 544, 1,
     -130>>, <<546, 562, 2, 1>>, <<570, 570, 1, 10795>>, <<571, 571, 1, 1>>, <<573, 573,
     1, -163>>, <<574, 574, 1, 10792>>, <<577, 577, 1, 1>>, <<579, 579, 1, -195>>, <<580,
     580, 1, 69>>, <<581, 581, 1, 71>>, <<582, 590, 2, 1>>, <<880, 882, 2, 1>>, <<886,
     886, 1, 1>>, <<895, 895, 1, 116>>, <<902, 902, 1, 38>>, <<904, 906, 1, 37>>, <<908,
     908, 1, 64>>, <<910, 911, 1, 63>>, <<913, 929, 1, 32>>, <<931, 939, 1, 32>>, <<975,
     975, 1, 8>>, <<984, 1006, 2, 1>>, <<1012, 1012, 1, -60>>, <<1015, 1015, 1, 1>>,
     <<1017, 1017, 1, -7>>, <<1018, 1018, 1, 1>>, <<1021, 1023, 1, -130>>, <<1024, 1039,
     1, 80>>, <<1040, 1071, 1, 32>>, <<1120, 1152, 2, 1>>, <<1162, 1214, 2, 1>>, <<1216,
     1216, 1, 15>>, <<1217, 1229, 2, 1>>, <<1232, 1326, 2, 1>>, <<1329, 1366, 1, 48>>,
     <<4256, 4293, 1, 7264>>, <<4295, 4295, 1, 7264>>, <<4301, 4301, 1, 7264>>, <<5024,
     5103, 1, 38864>>, <<5104, 5109, 1, 8>>, <<7312, 7354, 1, -3008>>, <<7357, 7359, 1,
     -3008>>, <<7680, 7828, 2, 1>>, <<7838, 7838, 1, -7615>>, <<7840, 7934, 2, 1>>,
     <<7944, 7951, 1, -8>>, <<7960, 7965, 1, -8>>, <<7976, 7983, 1, -8>>, <<7992, 7999,
     1, -8>>, <<8008, 8013, 1, -8>>, <<8025, 8031, 2, -8>>, <<8040, 8047, 1, -8>>,
     <<8072, 8079, 1, -8>>, <<8088, 8095, 1, -8>>, <<8104, 8111, 1, -8>>, <<8120, 8121,
     1, -8>>, <<8122, 8123, 1, -74>>, <<8124, 8124, 1, -9>>, <<8136, 8139, 1, -86>>,
     <<8140, 8140, 1, -9>>, <<8152, 8153, 1, -8>>, <<8154, 8155, 1, -100>>, <<8168, 8169,
     1, -8>>, <<8170, 8171, 1, -112>>, <<8172, 8172, 1, -7>>, <<8184, 8185, 1, -128>>,
     <<8186, 8187, 1, -126>>, <<8188, 8188, 1, -9>>, <<8486, 8486, 1, -7517>>, <<8490,
     8490, 1, -8383>>, <<8491, 8491, 1, -8262>>, <<8498, 8498, 1, 28>>, <<8544, 8559, 1,
     16>>, <<8579, 8579, 1, 1>>, <<9398, 9423, 1, 26>>, <<11264, 11311, 1, 48>>, <<11360,
     11360, 1, 1>>, <<11362, 11362, 1, -10743>>, <<11363, 11363, 1, -3814>>, <<11364,
     11364, 1, -10727>>, <<11367, 11371, 2, 1>>, <<11373, 11373, 1, -10780>>, <<11374,
     11374, 1, -10749>>, <<11375, 11375, 1, -10783>>, <<11376, 11376, 1, -10782>>,
     <<11378, 11378, 1, 1>>, <<11381, 11381, 1, 1>>, <<11390, 11391, 1, -10815>>,
     <<11392, 11490, 2, 1>>, <<11499, 11501, 2, 1>>, <<11506, 11506, 1, 1>>, <<42560,
     42604, 2, 1>>, <<42624, 42650, 2, 1>>, <<42786, 42798, 2, 1>>, <<42802, 42862, 2,
     1>>, <<42873, 42875, 2, 1>>, <<42877, 42877, 1, -35332>>, <<42878, 42886, 2, 1>>,
     <<42891, 42891, 1, 1>>, <<42893, 42893, 1, -42280>>, <<42896, 42898, 2, 1>>,
     <<42902, 42920, 2, 1>>, <<42922, 42922, 1, -42308>>, <<42923, 42923, 1, -42319>>,
     <<42924, 42924, 1, -42315>>, <<42925, 42925, 1, -42305>>, <<42926, 42926, 1,
     -42308>>, <<42928, 42928, 1, -42258>>, <<42929, 42929, 1, -42282>>, <<42930, 42930,
     1, -42261>>, <<42931, 42931, 1, 928>>, <<42932, 42946, 2, 1>>, <<42948, 42948, 1,
     -48>>, <<42949, 42949, 1, -42307>>, <<42950, 42950, 1, -35384>>, <<42951, 42953, 2,
     1>>, <<42960, 42960, 1, 1>>, <<42966, 42968, 2, 1>>, <<42997, 42997, 1, 1>>,
     <<65313, 65338, 1, 32>>, <<66560, 66599, 1, 40>>, <<66736, 66771, 1, 40>>, <<66928,
     66938, 1, 39>>, <<66940, 66954, 1, 39>>, <<66956, 66962, 1, 39>>, <<66964, 66965, 1,
     39>>, <<68736, 68786, 1, 64>>, <<71840, 71871, 1, 32>>, <<93760, 93791, 1, 32>>,
     <<125184, 125217, 1, 34>>}

\* the character whose lower case is more than one character
LowerSpecial ==
    {<<304, <<105, 775>>>>}

InRun(c, r) == r[1] <= c /\ c <= r[2] /\ (c - r[1]) % r[3] = 0

\* the case mapping of one character, as a text
CaseOf(c, runs, special) ==
    IF \E x \in special : x[1] = c THEN (CHOOSE x \in special : x[1] = c)[2]
    ELSE IF \E r \in runs : InRun(c, r) THEN <<c + (CHOOSE r \in runs : InRun(c, r))[4]>>
    ELSE <<c>>

\* ch.upper()
UpperChar(c) == CaseOf(c, UpperRuns, UpperSpecial)

\* the characters str.lower() skips around a capital sigma (Case_Ignorable)
CaseIgnorableRanges ==
    {<<39, 39>>, <<46, 46>>, <<58, 58>>, <<94, 94>>, <<96, 96>>, <<168, 168>>, <<173,
     173>>, <<175, 175>>, <<180, 180>>, <<183, 184>>, <<688, 879>>, <<884, 885>>, <<890,
     890>>, <<900, 901>>, <<903, 903>>, <<1155, 1161>>, <<1369, 1369>>, <<1375, 1375>>,
     <<1425, 1469>>, <<1471, 1471>>, <<1473, 1474>>, <<1476, 1477>>, <<1479, 1479>>,
     <<1524, 1524>>, <<1536, 1541>>, <<1552, 1562>>, <<1564, 1564>>, <<1600, 1600>>,
     <<1611, 1631>>, <<1648, 1648>>, <<1750, 1757>>, <<1759, 1768>>, <<1770, 1773>>,
     <<1807, 1807>>, <<1809, 1809>>, <<1840, 1866>>, <<1958, 1968>>, <<2027, 2037>>,
     <<2042, 2042>>, <<2045, 2045>>, <<2070, 2093>>, <<2137, 2139>>, <<2184, 2184>>,
     <<2192, 2193>>, <<2200, 2207>>, <<2249, 2306>>, <<2362, 2362>>, <<2364, 2364>>,
     <<2369, 2376>>, <<2381, 2381>>, <<2385, 2391>>, <<2402, 2403>>, <<2417, 2417>>,
     <<2433, 2433>>, <<2492, 2492>>, <<2497, 2500>>, <<2509, 2509>>, <<2530, 2531>>,
     <<2558, 2558>>, <<2561, 2562>>, <<2620, 2620>>, <<2625, 2626>>, <<2631, 2632>>,
     <<2635, 2637>>, <<2641, 2641>>, <<2672, 2673>>, <<2677, 2677>>, <<2689, 2690>>,
     <<2748, 2748>>, <<2753, 2757>>, <<2759, 2760>>, <<2765, 2765>>, <<2786, 2787>>,
     <<2810, 2815>>, <<2817, 2817>>, <<2876, 2876>>, <<2879, 2879>>, <<2881, 2884>>,
     <<2893, 2893>>, <<2901, 2902>>, <<2914, 2915>>, <<2946, 2946>>, <<3008, 3008>>,
     <<3021, 3021>>, <<3072, 3072>>, <<3076, 3076>>, <<3132, 3132>>, <<3134, 3136>>,
     <<3142, 3144>>, <<3146, 3149>>, <<3157, 3158>>, <<3170, 3171>>, <<3201, 3201>>,
     <<3260, 3260>>, <<3263, 3263>>, <<3270, 3270>>, <<3276, 3277>>, <<3298, 3299>>,
     <<3328, 3329>>, <<3387, 3388>>, <<3393, 3396>>, <<3405, 3405>>, <<3426, 3427>>,
     <<3457, 3457>>, <<3530, 3530>>, <<3538, 3540>>, <<3542, 3542>>, <<3633, 3633>>,
     <<3636, 3642>>, <<3654, 3662>>, <<3761, 3761>>, <<3764, 3772>>, <<3782, 3782>>,
     <<3784, 3789>>, <<3864, 3865>>, <<3893, 3893>>, <<3895, 3895>>, <<3897, 3897>>,
     <<3953, 3966>>, <<3968, 3972>>, <<3974, 3975>>, <<3981, 3991>>, <<3993, 4028>>,
     <<4038, 4038>>, <<4141, 4144>>, <<4146, 4151>>, <<4153, 4154>>, <<4157, 4158>>,
     <<4184, 4185>>, <<4190, 4192>>, <<4209, 4212>>, <<4226, 4226>>, <<4229, 4230>>,
     <<4237, 4237>>, <<4253, 4253>>, <<4348, 4348>>, <<4957, 4959>>, <<5906, 5908>>,
     <<5938, 5939>>, <<5970, 5971>>, <<6002, 6003>>, <<6068, 6069>>, <<6071, 6077>>,
     <<6086, 6086>>, <<6089, 6099>>, <<6103, 6103>>, <<6109, 6109>>, <<6155, 6159>>,
     <<6211, 6211>>, <<6277, 6278>>, <<6313, 6313>>, <<6432, 6434>>, <<6439, 6440>>,
     <<6450, 6450>>, <<6457, 6459>>, <<6679, 6680>>, <<6683, 6683>>, <<6742, 6742>>,
     <<6744, 6750>>, <<6752, 6752>>, <<6754, 6754>>, <<6757, 6764>>, <<6771, 6780>>,
     <<6783, 6783>>, <<6823, 6823>>, <<6832, 6862>>, <<6912, 6915>>, <<6964, 6964>>,
     <<6966, 6970>>, <<6972, 6972>>, <<6978, 6978>>, <<7019, 7027>>, <<7040, 7041>>,
     <<7074, 7077>>, <<7080, 7081>>, <<7083, 7085>>, <<7142, 7142>>, <<7144, 7145>>,
     <<7149, 7149>>, <<7151, 7153>>, <<7212, 7219>>, <<7222, 7223>>, <<7288, 7293>>,
     <<7376, 7378>>, <<7380, 7392>>, <<7394, 7400>>, <<7405, 7405>>, <<7412, 7412>>,
     <<7416, 7417>>, <<7468, 7530>>, <<7544, 7544>>, <<7579, 7679>>, <<8125, 8125>>,
     <<8127, 8129>>, <<8141, 8143>>, <<8157, 8159>>, <<8173, 8175>>, <<8189, 8190>>,
     <<8203, 8207>>, <<8216, 8217>>, <<8228, 8228>>, <<8231, 8231>>, <<8234, 8238>>,
     <<8288, 8292>>, <<8294, 8303>>, <<8305, 8305>>, <<8319, 8319>>, <<8336, 8348>>,
     <<8400, 8432>>, <<11388, 11389>>, <<11503, 11505>>, <<11631, 11631>>, <<11647,
     11647>>, <<11744, 11775>>, <<11823, 11823>>, <<12293, 12293>>, <<12330, 12333>>,
     <<12337, 12341>>, <<12347, 12347>>, <<12441, 12446>>, <<12540, 12542>>, <<40981,
     40981>>, <<42232, 42237>>, <<42508, 42508>>, <<42607, 42610>>, <<42612, 42621>>,
     <<42623, 42623>>, <<42652, 42655>>, <<42736, 42737>>, <<42752, 42785>>, <<42864,
     42864>>, <<42888, 42890>>, <<42994, 42996>>, <<43000, 43001>>, <<43010, 43010>>,
     <<43014, 43014>>, <<43019, 43019>>, <<43045, 43046>>, <<43052, 43052>>, <<43204,
     43205>>, <<43232, 43249>>, <<43263, 43263>>, <<43302, 43309>>, <<43335, 43345>>,
     <<43392, 43394>>, <<43443, 43443>>, <<43446, 43449>>, <<43452, 43453>>, <<43471,
     43471>>, <<43493, 43494>>, <<43561, 43566>>, <<43569, 43570>>, <<43573, 43574>>,
     <<43587, 43587>>, <<43596, 43596>>, <<43632, 43632>>, <<43644, 43644>>, <<43696,
     43696>>, <<43698, 43700>>, <<43703, 43704>>, <<43710, 43711>>, <<43713, 43713>>,
     <<43741, 43741>>, <<43756, 43757>>, <<43763, 43764>>, <<43766, 43766>>, <<43867,
     43871>>, <<43881, 43883>>, <<44005, 44005>>, <<44008, 44008>>, <<44013, 44013>>,
     <<64286, 64286>>, <<64434, 64450>>, <<65024, 65039>>, <<65043, 65043>>, <<65056,
     65071>>, <<65106, 65106>>, <<65109, 65109>>, <<65279, 65279>>, <<65287, 65287>>,
     <<65294, 65294>>, <<65306, 65306>>, <<65342, 65342>>, <<65344, 65344>>, <<65392,
     65392>>, <<65438, 65439>>, <<65507, 65507>>, <<65529, 65531>>, <<66045, 66045>>,
     <<66272, 66272>>, <<66422, 66426>>, <<67456, 67461>>, <<67463, 67504>>, <<67506,
     67514>>, <<68097, 68099>>, <<68101, 68102>>, <<68108, 68111>>, <<68152, 68154>>,
     <<68159, 68159>>, <<68325, 68326>>, <<68900, 68903>>, <<69291, 69292>>, <<69446,
     69456>>, <<69506, 69509>>, <<69633, 69633>>, <<69688, 69702>>, <<69744, 69744>>,
     <<69747, 69748>>, <<69759, 69761>>, <<69811, 69814>>, <<69817, 69818>>, <<69821,
     69821>>, <<69826, 69826>>, <<69837, 69837>>, <<69888, 69890>>, <<69927, 69931>>,
     <<69933, 69940>>, <<70003, 70003>>, <<70016, 70017>>, <<70070, 70078>>, <<70089,
     70092>>, <<70095, 70095>>, <<70191, 70193>>, <<70196, 70196>>, <<70198, 70199>>,
     <<70206, 70206>>, <<70367, 70367>>, <<70371, 70378>>, <<70400, 70401>>, <<70459,
     70460>>, <<70464, 70464>>, <<70502, 70508>>, <<70512, 70516>>, <<70712, 70719>>,
     <<70722, 70724>>, <<70726, 70726>>, <<70750, 70750>>, <<70835, 70840>>, <<70842,
     70842>>, <<70847, 70848>>, <<70850, 70851>>, <<71090, 71093>>, <<71100, 71101>>,
     <<71103, 71104>>, <<71132, 71133>>, <<71219, 71226>>, <<71229, 71229>>, <<71231,
     71232>>, <<71339, 71339>>, <<71341, 71341>>, <<71344, 71349>>, <<71351, 71351>>,
     <<71453, 71455>>, <<71458, 71461>>, <<71463, 71467>>, <<71727, 71735>>, <<71737,
     71738>>, <<71995, 71996>>, <<71998, 71998>>, <<72003, 72003>>, <<72148, 72151>>,
     <<72154, 72155>>, <<72160, 72160>>, <<72193, 72202>>, <<72243, 72248>>, <<72251,
     72254>>, <<72263, 72263>>, <<72273, 72278>>, <<72281, 72283>>, <<72330, 72342>>,
     <<72344, 72345>>, <<72752, 72758>>, <<72760, 72765>>, <<72767, 72767>>, <<72850,
     72871>>, <<72874, 72880>>, <<72882, 72883>>, <<72885, 72886>>, <<73009, 73014>>,
     <<73018, 73018>>, <<73020, 73021>>, <<73023, 73029>>, <<73031, 73031>>, <<73104,
     73105>>, <<73109, 73109>>, <<73111, 73111>>, <<73459, 73460>>, <<78896, 78904>>,
     <<92912, 92916>>, <<92976, 92982>>, <<92992, 92995>>, <<94031, 94031>>, <<94095,
     94111>>, <<94176, 94177>>, <<94179, 94180>>, <<110576, 110579>>, <<110581, 110587>>,
     <<110589, 110590>>, <<113821, 113822>>, <<113824, 113827>>, <<118528, 118573>>,
     <<118576, 118598>>, <<119143, 119145>>, <<119155, 119170>>, <<119173, 119179>>,
     <<119210, 119213>>, <<119362, 119364>>, <<121344, 121398>>, <<121403, 121452>>,
     <<121461, 121461>>, <<121476, 121476>>, <<121499, 121503>>, <<121505, 121519>>,
     <<122880, 122886>>, <<122888, 122904>>, <<122907, 122913>>, <<122915, 122916>>,
     <<122918, 122922>>, <<123184, 123197>>, <<123566, 123566>>, <<123628, 123631>>,
     <<125136, 125142>>, <<125252, 125259>>, <<127995, 127999>>, <<917505, 917505>>,
     <<917536, 917631>>, <<917760, 917999>>}

\* the cased characters that are not skipped
CasedRanges ==
    {<<65, 90>>, <<97, 122>>, <<170, 170>>, <<181, 181>>, <<186, 186>>, <<192, 214>>,
     <<216, 246>>, <<248, 442>>, <<444, 447>>, <<452, 659>>, <<661, 687>>, <<880, 883>>,
     <<886, 887>>, <<891, 893>>, <<895, 895>>, <<902, 902>>, <<904, 906>>, <<908, 908>>,
     <<910, 929>>, <<931, 1013>>, <<1015, 1153>>, <<1162, 1327>>, <<1329, 1366>>, <<1376,
     1416>>, <<4256, 4293>>, <<4295, 4295>>, <<4301, 4301>>, <<4304, 4346>>, <<4349,
     4351>>, <<5024, 5109>>, <<5112, 5117>>, <<7296, 7304>>, <<7312, 7354>>, <<7357,
     7359>>, <<7424, 7467>>, <<7531, 7543>>, <<7545, 7578>>, <<7680, 7957>>, <<7960,
     7965>>, <<7968, 8005>>, <<8008, 8013>>, <<8016, 8023>>, <<8025, 8025>>, <<8027,
     8027>>, <<8029, 8029>>, <<8031, 8061>>, <<8064, 8116>>, <<8118, 8124>>, <<8126,
     8126>>, <<8130, 8132>>, <<8134, 8140>>, <<8144, 8147>>, <<8150, 8155>>, <<8160,
     8172>>, <<8178, 8180>>, <<8182, 8188>>, <<8450, 8450>>, <<8455, 8455>>, <<8458,
     8467>>, <<8469, 8469>>, <<8473, 8477>>, <<8484, 8484>>, <<8486, 8486>>, <<8488,
     8488>>, <<8490, 8493>>, <<8495, 8500>>, <<8505, 8505>>, <<8508, 8511>>, <<8517,
     8521>>, <<8526, 8526>>, <<8544, 8575>>, <<8579, 8580>>, <<9398, 9449>>, <<11264,
     11387>>, <<11390, 11492>>, <<11499, 11502>>, <<11506, 11507>>, <<11520, 11557>>,
     <<11559, 11559>>, <<11565, 11565>>, <<42560, 42605>>, <<42624, 42651>>, <<42786,
     42863>>, <<42865, 42887>>, <<42891, 42894>>, <<42896, 42954>>, <<42960, 42961>>,
     <<42963, 42963>>, <<42965, 42969>>, <<42997, 42998>>, <<43002, 43002>>, <<43824,
     43866>>, <<43872, 43880>>, <<43888, 43967>>, <<64256, 64262>>, <<64275, 64279>>,
     <<65313, 65338>>, <<65345, 65370>>, <<66560, 66639>>, <<66736, 66771>>, <<66776,
     66811>>, <<66928, 66938>>, <<66940, 66954>>, <<66956, 66962>>, <<66964, 66965>>,
     <<66967, 66977>>, <<66979, 66993>>, <<66995, 67001>>, <<67003, 67004>>, <<68736,
     68786>>, <<68800, 68850>>, <<71840, 71903>>, <<93760, 93823>>, <<119808, 119892>>,
     <<119894, 119964>>, <<119966, 119967>>, <<119970, 119970>>, <<119973, 119974>>,
     <<119977, 119980>>, <<119982, 119993>>, <<119995, 119995>>, <<119997, 120003>>,
     <<120005, 120069>>, <<120071, 120074>>, <<120077, 120084>>, <<120086, 120092>>,
     <<120094, 120121>>, <<120123, 120126>>, <<120128, 120132>>, <<120134, 120134>>,
     <<120138, 120144>>, <<120146, 120485>>, <<120488, 120512>>, <<120514, 120538>>,
     <<120540, 120570>>, <<120572, 120596>>, <<120598, 120628>>, <<120630, 120654>>,
     <<120656, 120686>>, <<120688, 120712>>, <<120714, 120744>>, <<120746, 120770>>,
     <<120772, 120779>>, <<122624, 122633>>, <<122635, 122654>>, <<125184, 125251>>,
     <<127280, 127305>>, <<127312, 127337>>, <<127344, 127369>>}

\* str.lower() on a capital sigma: it is final where a cased character comes
\* before it and none after it, skipped characters aside
FinalSigma(t, i) ==
    LET before == {j \in 1..(i - 1) : ~InRanges(t[j], CaseIgnorableRanges)}
        after == {j \in (i + 1)..Len(t) : ~InRanges(t[j], CaseIgnorableRanges)}
    IN /\ before # {}
       /\ InRanges(t[CHOOSE j \in before : \A k \in before : k <= j], CasedRanges)
       /\ \/ after = {}
          \/ ~InRanges(t[CHOOSE j \in after : \A k \in after : j <= k], CasedRanges)

RECURSIVE JoinTexts(_)
\* "".join(texts)
JoinTexts(texts) == IF texts = <<>> THEN <<>> ELSE texts[1] \o JoinTexts(Tail(texts))

\* str.lower()
LowerText(t) ==
    JoinTexts([i \in 1..Len(t) |->
               IF t[i] = 931 THEN (IF FinalSigma(t, i) THEN <<962>> ELSE <<963>>)
               ELSE CaseOf(t[i], LowerRuns, LowerSpecial)])


-----------------------------------------------------------------------------
(* datetime.strptime(s, "%Y%m%d").date()                                   *)

NoDate == <<0, 0, 0>>

IsLeap(y) == (y % 4 = 0 /\ y % 100 # 0) \/ y % 400 = 0

DaysInMonth(y, m) ==
    IF m = 2 THEN (IF IsLeap(y) THEN 29 ELSE 28)
    ELSE IF m \in {4, 6, 9, 11} THEN 30 ELSE 31

\* the alternatives of the %m group, in the regex's order: 1[0-2] | 0[1-9] | [1-9]
\* each result is <<value, characters consumed>>
MonthAlts(r) ==
    (IF Len(r) >= 2 /\ r[1] = 49 /\ r[2] \in 48..50
        THEN <<(<<10 + DigitVal(r[2]), 2>>)>> ELSE <<>>)
    \o (IF Len(r) >= 2 /\ r[1] = 48 /\ r[2] \in 49..57
        THEN <<(<<DigitVal(r[2]), 2>>)>> ELSE <<>>)
    \o (IF Len(r) >= 1 /\ r[1] \in 49..57
        THEN <<(<<DigitVal(r[1]), 1>>)>> ELSE <<>>)

\* the alternatives of the %d group: 3[01] | [12]\d | 0[1-9] | [1-9] | " "[1-9]
DayAlts(r) ==
    (IF Len(r) >= 2 /\ r[1] = 51 /\ r[2] \in 48..49
        THEN <<(<<30 + DigitVal(r[2]), 2>>)>> ELSE <<>>)
    \o (IF Len(r) >= 2 /\ r[1] \in 49..50 /\ IsDigit(r[2])
        THEN <<(<<10 * DigitVal(r[1]) + DigitVal(r[2]), 2>>)>> ELSE <<>>)
    \o (IF Len(r) >= 2 /\ r[1] = 48 /\ r[2] \in 49..57
        THEN <<(<<DigitVal(r[2]), 2>>)>> ELSE <<>>)
    \o (IF Len(r) >= 1 /\ r[1] \in 49..57
        THEN <<(<<DigitVal(r[1]), 1>>)>> ELSE <<>>)
    \o (IF Len(r) >= 2 /\ r[1] = 32 /\ r[2] \in 49..57
        THEN <<(<<DigitVal(r[2]), 2>>)>> ELSE <<>>)

RECURSIVE FirstMatch(_, _)
\* the first month alternative after which some day alternative matches:
\* <<month, day, characters consumed>>, or <<>> when the regex does not match
FirstMatch(malts, r) ==
    IF malts = <<>> THEN <<>>
    ELSE LET m == malts[1]
             d == DayAlts(SubSeq(r, m[2] + 1, Len(r)))
         IN IF d # <<>> THEN <<m[1], d[1][1], m[2] + d[1][2]>>
            ELSE FirstMatch(Tail(malts), r)

\* the date, or NoDate where strptime raises ValueError
Strptime(s) ==
    IF Len(s) < 4 \/ \E i \in 1..4 : ~IsDigit(s[i]) THEN NoDate
    ELSE LET y == 1000 * DigitVal(s[1]) + 100 * DigitVal(s[2])
                  + 10 * DigitVal(s[3]) + DigitVal(s[4])
             r == SubSeq(s, 5, Len(s))
             f == FirstMatch(MonthAlts(r), r)
         IN IF f = <<>> THEN NoDate
            ELSE IF 4 + f[3] # Len(s) THEN NoDate    \* unconverted data remains
            ELSE IF y < 1 \/ f[2] > DaysInMonth(y, f[1]) THEN NoDate
            ELSE <<y, f[1], f[2]>>

DateOrd(d) == d[1] * 10000 + d[2] * 100 + d[3]

-----------------------------------------------------------------------------
(* sample.process.py: _save_content_to_file                                *)

MaxBatch == 2
MaxCrash == 1

Str8(a, b, c, d, e, f, g, h) == <<48 + a, 48 + b, 48 + c, 48 + d, 48 + e, 48 + f, 48 + g, 48 + h>>

\* "20240115,1", "20240115,2": two lines with one sort key
LineX1 == Str8(2, 0, 2, 4, 0, 1, 1, 5) \o <<Comma, 49>>
LineX2 == Str8(2, 0, 2, 4, 0, 1, 1, 5) \o <<Comma, 50>>
\* "": an empty line
LineE == <<>>

\* "20240115,1\r20240115,1": a line that holds a carriage return, as the data
\* line of a record whose cusip holds one
LineCR == LineX1 \o <<13>> \o LineX1

MergeLines == {LineX1, LineX2, LineE, LineCR}

Batches == UNION {[1..n -> MergeLines] : n \in 0..MaxBatch}

\* a destination is (folder, name); the folder decides the sort
Dests == {<<"universe", "d">>, <<"entity", "t">>}

\* the batches a destination is called with: universe lines for the universe
\* file, data lines (one of them with a carriage return) for a per-entity file
BatchesFor(dest) ==
    LET ls == IF dest[1] = "universe" THEN {LineX1, LineX2, LineE}
              ELSE {LineX1, LineCR, LineE}
    IN UNION {[1..n -> ls] : n \in 0..MaxBatch}

Absent == [exists |-> FALSE, lines |-> <<>>]

File(ls) == [exists |-> TRUE, lines |-> ls]

Range(s) == {s[i] : i \in 1..Len(s)}

RECURSIVE UniversalLines(_)
\* line 416: the lines a text-mode read (universal newlines) yields for a text
\* that ends with a line end: a carriage return and the line feed after it are
\* one line end, a lone carriage return and a lone line feed are one each
UniversalLines(text) ==
    IF text = <<>> THEN <<>>
    ELSE LET i == CHOOSE i \in 1..Len(text) :
                      text[i] \in {10, 13} /\ \A j \in 1..(i - 1) : text[j] \notin {10, 13}
             n == IF text[i] = 13 /\ i < Len(text) /\ text[i + 1] = 10 THEN i + 1 ELSE i
         IN <<SubSeq(text, 1, i - 1)>> \o UniversalLines(SubSeq(text, n + 1, Len(text)))

\* lines 415-417: a row the file holds, written with newline="" and a "\n" after
\* it, as the text-mode read yields it, each line without its line end
ReadBack(row) == UniversalLines(row \o <<10>>)

RECURSIVE ReadLines(_)
\* lines 415-417: the lines the read of a file yields, for the rows written to it
ReadLines(rows) ==
    IF rows = <<>> THEN <<>> ELSE ReadBack(rows[1]) \o ReadLines(Tail(rows))

\* lines 414-420: the non-empty lines of the existing file, as a set
ExistingLines(f) == IF f.exists THEN Range(ReadLines(f.lines)) \ {<<>>} ELSE {}

\* a union that keeps the empty lines of the batch
AllLinesKeepEmpty(f, batch) == ExistingLines(f) \cup Range(batch)

\* lines 422-424: union with the non-empty new lines
AllLines(f, batch) == ExistingLines(f) \cup {l \in Range(batch) : l # <<>>}

\* lines 432-437: date_key
DateKey(row) ==
    LET d == Strptime(FirstField(row))
    IN IF d = NoDate THEN <<1900, 1, 1>> ELSE d

\* lines 429-439: the order of the sort key of two rows
KeyLeq(folder, a, b) ==
    IF folder = "universe"
    THEN StrLeq(FirstField(a), FirstField(b))
    ELSE DateOrd(DateKey(a)) <= DateOrd(DateKey(b))

RECURSIVE Orderings(_, _)
\* sorted(all_lines, key=...): a stable sort of the set's iteration order, which
\* for a set of str depends on the process's hash seed and on the insertion
\* history: rows with equal keys may come out in any order
Orderings(folder, S) ==
    IF S = {} THEN {<<>>}
    ELSE LET mins == {x \in S : \A y \in S : KeyLeq(folder, x, y)}
         IN UNION {{<<x>> \o t : t \in Orderings(folder, S \ {x})} : x \in mins}

\* lines 414-439: the rows the call may write, in order
MergedRows(folder, f, batch) == Orderings(folder, AllLines(f, batch))

\* lines 66-68: the folders of the downloader, as paths
destination_folder == <<"out">>
universe_folder == destination_folder \o <<"universe">>
tmp_folder == destination_folder \o <<"tmp">>

\* the folder argument of a call: line 335 (per ticker) and line 339 (universe)
FolderPath(folder) == IF folder = "universe" THEN universe_folder ELSE destination_folder

\* line 409: final_path
FinalPath(dest) == FolderPath(dest[1]) \o <<dest[2] \o ".csv">>

\* line 441: tmp_name, with the uuid as one name
TmpName == tmp_folder \o <<"uuid4.tmp">>

NoPath == <<>>

Idle == [pc |-> "idle", dest |-> <<"universe", "d">>, batch |-> <<>>,
         ordered |-> <<>>, tmp |-> <<>>, before |-> Absent, rep |-> FALSE,
         tmpName |-> NoPath]

NoCall == <<>>

InitMerge ==
    /\ prog = "merge"
    /\ files = [d \in Dests |-> Absent]
    /\ mw = Idle
    /\ last = NoCall
    /\ strayTmp = 0
    /\ crashes = 0
    /\ ConvertOff /\ NormalizeOff /\ ExtractOff /\ SampleOff /\ ProbesOff

\* lines 409-412 and 426-427: the call returns without writing
SaveReturnsEarly(dest, batch) ==
    /\ prog = "merge"
    /\ mw.pc \in {"idle", "done"}
    /\ batch = <<>> \/ AllLines(files[dest], batch) = {}
    /\ mw' = [Idle EXCEPT !.pc = "done", !.dest = dest, !.before = files[dest],
                          !.rep = (last = <<dest, batch>>)]
    /\ last' = <<dest, batch>>
    /\ UNCHANGED <<prog, files, strayTmp, crashes, notMerge>>

\* lines 409-442: read, union, sort, open the temporary file
SaveBegin(dest, batch) ==
    /\ prog = "merge"
    /\ mw.pc \in {"idle", "done"}
    /\ batch # <<>>
    /\ AllLines(files[dest], batch) # {}
    /\ \E ord \in MergedRows(dest[1], files[dest], batch) :
          mw' = [pc |-> "writing", dest |-> dest, batch |-> batch, ordered |-> ord,
                 tmp |-> <<>>, before |-> files[dest], rep |-> (last = <<dest, batch>>),
                 tmpName |-> TmpName]
    /\ last' = NoCall
    /\ UNCHANGED <<prog, files, strayTmp, crashes, notMerge>>

\* the rows go straight into the destination file, truncated at the first row
SaveWriteRowInPlace ==
    /\ prog = "merge"
    /\ mw.pc = "writing"
    /\ Len(mw.tmp) < Len(mw.ordered)
    /\ mw' = [mw EXCEPT !.tmp = Append(mw.tmp, mw.ordered[Len(mw.tmp) + 1])]
    /\ files' = [files EXCEPT ![mw.dest] = File(mw'.tmp)]
    /\ UNCHANGED <<prog, last, strayTmp, crashes, notMerge>>

\* lines 443-444: one row is written to the temporary file
SaveWriteRow ==
    /\ prog = "merge"
    /\ mw.pc = "writing"
    /\ Len(mw.tmp) < Len(mw.ordered)
    /\ mw' = [mw EXCEPT !.tmp = Append(mw.tmp, mw.ordered[Len(mw.tmp) + 1])]
    /\ UNCHANGED <<prog, files, last, strayTmp, crashes, notMerge>>

\* line 445: tmp_name.replace(final_path)
SaveRename ==
    /\ prog = "merge"
    /\ mw.pc = "writing"
    /\ Len(mw.tmp) = Len(mw.ordered)
    /\ files' = [files EXCEPT ![mw.dest] = File(mw.tmp)]
    /\ mw' = [Idle EXCEPT !.pc = "done", !.dest = mw.dest, !.before = mw.before,
                          !.rep = mw.rep]
    /\ last' = <<mw.dest, mw.batch>>
    /\ UNCHANGED <<prog, strayTmp, crashes, notMerge>>

\* the process dies inside the call, before the rename: the temporary file stays
\* in tmp_folder and nothing else of the call survives
SaveCrash ==
    /\ prog = "merge"
    /\ mw.pc = "writing"
    /\ crashes < MaxCrash
    /\ crashes' = crashes + 1
    /\ strayTmp' = strayTmp + 1
    /\ mw' = [mw EXCEPT !.pc = "crashed", !.rep = FALSE]
    /\ last' = NoCall
    /\ UNCHANGED <<prog, files, notMerge>>

\* the next run of the program after a crash
SaveRestart ==
    /\ prog = "merge"
    /\ mw.pc = "crashed"
    /\ mw' = Idle
    /\ UNCHANGED <<prog, files, last, strayTmp, crashes, notMerge>>

NextMerge ==
    \/ \E dest \in Dests : \E batch \in BatchesFor(dest) : SaveReturnsEarly(dest, batch)
    \/ \E dest \in Dests : \E batch \in BatchesFor(dest) : SaveBegin(dest, batch)
    \/ SaveWriteRow
    \/ SaveRename
    \/ SaveCrash
    \/ SaveRestart

SpecMerge == InitMerge /\ [][NextMerge]_vars

-----------------------------------------------------------------------------
(* Claims about _save_content_to_file.                                     *)

RECURSIVE FileText(_)
\* the text of a file: every row written is followed by a line feed
FileText(rows) == IF rows = <<>> THEN <<>> ELSE rows[1] \o <<10>> \o FileText(Tail(rows))

\* the lines of a text: the maximal runs of characters other than carriage
\* return and line feed, as <<first, last>> positions
LineRuns(text) ==
    {r \in (1..Len(text)) \X (1..Len(text)) :
        /\ r[1] <= r[2]
        /\ \A k \in r[1]..r[2] : text[k] \notin {10, 13}
        /\ r[1] = 1 \/ text[r[1] - 1] \in {10, 13}
        /\ r[2] = Len(text) \/ text[r[2] + 1] \in {10, 13}}

\* no line occurs twice in the file
NoDuplicates(rows) ==
    LET text == FileText(rows)
    IN \A r1, r2 \in LineRuns(text) :
          SubSeq(text, r1[1], r1[2]) = SubSeq(text, r2[1], r2[2]) => r1 = r2

\* how often the file holds the line l
LineCount(rows, l) ==
    LET text == FileText(rows)
    IN Cardinality({r \in LineRuns(text) : SubSeq(text, r[1], r[2]) = l})

Occurrences(s, l) == Cardinality({i \in 1..Len(s) : s[i] = l})

\* C2: a call that immediately repeats the call before it (same destination,
\* same batch) leaves the destination's sequence of lines unchanged.
C2_MergeIdempotent ==
    (mw.pc = "done" /\ mw.rep) => files[mw.dest] = mw.before

\* C3: read back, every destination holds each line at most once, and after a
\* completed call every non-empty line of its batch is in the destination
\* exactly once.
C3_Dedup ==
    /\ \A d \in Dests : NoDuplicates(files[d].lines)
    /\ (mw.pc = "done" /\ last # NoCall) =>
          \A l \in Range(last[2]) :
              l # <<>> => LineCount(files[last[1]].lines, l) = 1

\* C4: until the rename the destination is its content from before the call
\* (or still absent); after the call it is that content or the complete merge.
C4_AtomicWrite ==
    /\ mw.pc \in {"writing", "crashed"} => files[mw.dest] = mw.before
    /\ (mw.pc = "done" /\ last # NoCall) =>
          \/ files[mw.dest] = mw.before
          \/ /\ files[mw.dest].exists
             /\ files[mw.dest].lines \in
                    Orderings(mw.dest[1], AllLines(mw.before, last[2]))

\* C4 witness: a crash after a part of the temporary file was written, over a
\* destination that had content
C4_Witness ==
    /\ mw.pc = "crashed"
    /\ Len(mw.tmp) > 0 /\ Len(mw.tmp) < Len(mw.ordered)
    /\ mw.before.exists
    /\ files[mw.dest] = mw.before

-----------------------------------------------------------------------------
(* clean.py: the normalisation of one parsed frame (lines 42-73)           *)

\* a null cell; text cells are sequences of character codes
Null == <<-1>>

Pipe == 124

\* the characters str.strip_chars() removes: tab, LF, VT, FF, CR, space
\* the characters with the Unicode property White_Space, which strip_chars()
\* without argument trims
Whitespace ==
    (9..13) \cup {32, 133, 160, 5760} \cup (8192..8202) \cup {8232, 8233, 8239, 8287, 12288}

RECURSIVE StripStart(_)
StripStart(t) ==
    IF t # <<>> /\ t[1] \in Whitespace THEN StripStart(Tail(t)) ELSE t

RECURSIVE StripEnd(_)
StripEnd(t) ==
    IF t # <<>> /\ t[Len(t)] \in Whitespace
    THEN StripEnd(SubSeq(t, 1, Len(t) - 1)) ELSE t

\* .str.strip_chars()
StripChars(t) == StripEnd(StripStart(t))

RECURSIVE DropLeadingPipes(_)
DropLeadingPipes(t) ==
    IF t # <<>> /\ t[1] = Pipe THEN DropLeadingPipes(Tail(t)) ELSE t

RECURSIVE DropTrailingPipes(_)
DropTrailingPipes(t) ==
    IF t # <<>> /\ t[Len(t)] = Pipe
    THEN DropTrailingPipes(SubSeq(t, 1, Len(t) - 1)) ELSE t

\* line 54: .str.replace(r"^\|+|\|+$", "") replaces the FIRST match only: the
\* leading run of pipes when there is one, otherwise the trailing run
ReplacePipes(t) ==
    IF t # <<>> /\ t[1] = Pipe THEN DropLeadingPipes(t) ELSE DropTrailingPipes(t)

\* .fill_null("")
FillNull(c) == IF c = Null THEN <<>> ELSE c

\* lines 52-55: combo
Combo(c5, c6) == ReplacePipes(FillNull(c5) \o <<Pipe>> \o FillNull(c6))

\* lines 46-48: a frame narrower than 6 columns gets null columns up to c6
PadRow(row) ==
    IF Len(row) < 6 THEN row \o [i \in 1..(6 - Len(row)) |-> Null] ELSE row

\* lines 51-66: the c7 rule, then c1..c6 and c8.. are kept
RepairRow(row) ==
    IF Len(row) < 7 THEN row
    ELSE SubSeq(row, 1, 4)
         \o <<(IF row[7] # Null THEN Combo(row[5], row[6]) ELSE row[5]),
              (IF row[7] # Null THEN row[7] ELSE row[6])>>
         \o SubSeq(row, 8, Len(row))

\* a filter that drops only the null c2
KeepRowNotNull(row) == row[2] # Null

\* lines 69-73: the c2 filter
KeepRow(row) == row[2] # Null /\ Len(StripChars(row[2])) > 0

RECURSIVE MapRepair(_)
MapRepair(rows) ==
    IF rows = <<>> THEN <<>>
    ELSE <<RepairRow(PadRow(rows[1]))>> \o MapRepair(Tail(rows))

\* lines 42-73: the rows of the frame that reach the output, in order
NormalizeFrame(rows) == SelectSeq(MapRepair(rows), KeepRow)

\* the frames put through the normalisation: one row of 5 to 8 columns
Cells2 == {Null, <<>>, <<32>>, <<160>>, <<31>>, <<67>>, <<32, 67, 9>>}
Cells5 == {Null, <<>>, <<68>>, <<Pipe, 68>>}
Cells6 == {Null, <<>>, <<69>>, <<69, Pipe>>}
Cells7 == {Null, <<>>, <<90>>}

ProbeRows ==
    {<<(<<49>>), c2, <<83>>, <<57>>, c5>> : c2 \in Cells2, c5 \in Cells5}
    \cup {<<(<<49>>), c2, <<83>>, <<57>>, c5, c6>> :
              c2 \in Cells2, c5 \in Cells5, c6 \in Cells6}
    \cup {<<(<<49>>), c2, <<83>>, <<57>>, c5, c6, c7>> :
              c2 \in Cells2, c5 \in Cells5, c6 \in Cells6, c7 \in Cells7}
    \cup {<<(<<49>>), c2, <<83>>, <<57>>, c5, c6, c7, <<72>>>> :
              c2 \in Cells2, c5 \in Cells5, c6 \in Cells6, c7 \in Cells7}

InitNormalize ==
    /\ prog = "normalize"
    /\ nz \in {[row |-> r, repaired |-> <<>>, out |-> <<>>, done |-> FALSE] : r \in ProbeRows}
    /\ MergeOff /\ ConvertOff /\ ExtractOff /\ SampleOff /\ ProbesOff

\* lines 42-73 on a frame of one row
NormalizeApply ==
    /\ prog = "normalize"
    /\ ~nz.done
    /\ nz' = [nz EXCEPT !.repaired = RepairRow(PadRow(nz.row)),
                        !.out = NormalizeFrame(<<nz.row>>),
                        !.done = TRUE]
    /\ UNCHANGED <<prog, notNormalize>>

NextNormalize == NormalizeApply

SpecNormalize == InitNormalize /\ [][NextNormalize]_vars

-----------------------------------------------------------------------------
(* Claims about the normalisation.                                         *)

\* a cell that is null, empty or whitespace only
IsBlank(c) == c = Null \/ \A i \in 1..Len(c) : c[i] \in Whitespace

RECURSIVE PipesStripped(_)
\* a text without its leading and trailing pipes
PipesStripped(t) ==
    IF t = <<>> THEN t
    ELSE IF t[1] = Pipe THEN PipesStripped(Tail(t))
    ELSE IF t[Len(t)] = Pipe THEN PipesStripped(SubSeq(t, 1, Len(t) - 1))
    ELSE t

\* C9: in a frame with a 7th column, a row with a non-null c7 gets c5 = c5 and c6
\* joined by "|" without leading and trailing pipes and c6 = the former c7; a row
\* with a null c7 keeps c5 and c6; c7 is dropped and c8.. follow c6.
C9_ColumnRepair ==
    (nz.done /\ Len(nz.row) >= 7) =>
        /\ nz.row[7] # Null =>
              /\ nz.repaired[5] =
                    PipesStripped(FillNull(nz.row[5]) \o <<Pipe>> \o FillNull(nz.row[6]))
              /\ nz.repaired[6] = nz.row[7]
        /\ nz.row[7] = Null =>
              /\ nz.repaired[5] = nz.row[5]
              /\ nz.repaired[6] = nz.row[6]
        /\ Len(nz.repaired) = Len(nz.row) - 1
        /\ \A i \in 1..4 : nz.repaired[i] = nz.row[i]
        /\ \A i \in 7..Len(nz.repaired) : nz.repaired[i] = nz.row[i + 1]

\* C10: a row with a blank c2 is not in the output, whatever its other cells;
\* a row with a non-blank c2 is, as repaired.
C10_RowFilter ==
    nz.done =>
        /\ IsBlank(nz.row[2]) => nz.out = <<>>
        /\ ~IsBlank(nz.row[2]) => nz.out = <<nz.repaired>>

\* C10 witness: a row whose c2 is one space and whose other cells are text is
\* dropped
C10_Witness ==
    /\ nz.done
    /\ nz.row[2] = <<32>>
    /\ \A i \in 1..Len(nz.row) : nz.row[i] # Null
    /\ Len(nz.row) = 7
    /\ nz.out = <<>>

-----------------------------------------------------------------------------
(* clean.py: convert_txt_csv                                               *)

NumSrc == 2
MaxRuns == 2

Srcs == 1..NumSrc

\* what pl.read_csv makes of a raw file: no frame (it raises), or the rows
Unreadable == [ok |-> FALSE, rows |-> <<>>]

Frame(rows) == [ok |-> TRUE, rows |-> rows]

RowGood == <<(<<49>>), <<67>>, <<83>>, <<57>>, <<68>>, <<80>>>>
RowBlank == <<(<<50>>), <<32>>, <<83>>, <<57>>, <<68>>, <<80>>>>
RowSeven == <<(<<51>>), <<67, 55>>, <<83>>, <<57>>, <<68>>, <<69>>, <<90>>>>
RowNoCusip == <<(<<52>>), Null, <<83>>, <<57>>, <<68>>, <<69>>, Null>>
RowNarrow == <<(<<53>>), <<67, 53>>, <<83>>, <<57>>, <<68>>>>

SrcFrames ==
    {Unreadable, Frame(<<>>), Frame(<<RowBlank>>), Frame(<<RowGood>>),
     Frame(<<RowSeven, RowNoCusip>>), Frame(<<RowNarrow>>)}

NoCsv == [exists |-> FALSE, rows |-> <<>>, complete |-> FALSE]

\* unzip.py: no extract_zip_to_dir call has been made
NoUnzip == [extracted |-> <<>>, at |-> -1]

\* the members of an archive: a directory entry, a file that is a candidate of
\* convert_txt_csv (name in Srcs, with what pl.read_csv makes of its bytes), or a
\* file with another suffix (name 0)
DirEntry == [dir |-> TRUE, name |-> 0, frame |-> Unreadable]

FileEntry(name, f) == [dir |-> FALSE, name |-> name, frame |-> f]

\* the archive of distribution z in downloads_dir
ZipMembers(z) ==
    IF z = 1 THEN <<DirEntry, FileEntry(1, Frame(<<RowGood>>)), FileEntry(0, Unreadable)>>
    ELSE <<FileEntry(z, Frame(<<RowBlank>>)), FileEntry(1, Unreadable)>>

\* unzip.py lines 9-16: directory entries are skipped, every other member is
\* written to out_dir / member.filename (an older file is replaced) and appended
\* to the result
RECURSIVE UnzipMembers(_, _, _)
UnzipMembers(members, r, extracted) ==
    IF members = <<>> THEN [raw |-> r, extracted |-> extracted]
    ELSE LET m == Head(members)
         IN IF m.dir THEN UnzipMembers(Tail(members), r, extracted)
            ELSE UnzipMembers(Tail(members),
                              IF m.name \in Srcs
                              THEN [r EXCEPT ![m.name] = [present |-> TRUE, frame |-> m.frame]]
                              ELSE r,
                              Append(extracted, m.name))

CvIdle == [pc |-> "idle", todo |-> <<>>, seen |-> {}, written |-> 0, runs |-> 0,
           logStart |-> 0, counted |-> {}, lastSrc |-> 0, lastOutcome |-> "none"]

InitConvert ==
    /\ prog = "convert"
    /\ raw \in [Srcs -> {[present |-> TRUE, frame |-> f] : f \in SrcFrames}]
    /\ outCsv = NoCsv
    /\ emptyLog = <<>>
    /\ cv = CvIdle
    /\ uz = NoUnzip
    /\ zipDir = {<<z, "whole">> : z \in Srcs}
    /\ ledgerFile = <<>> /\ lastRunFile = <<>> /\ sp = <<>>
    /\ MergeOff /\ NormalizeOff /\ SampleOff /\ ProbesOff

\* the sequences that hold every element of S once: the orders rglob may yield
Perms(S) ==
    {p \in [1..Cardinality(S) -> S] : \A i, j \in 1..Cardinality(S) : p[i] = p[j] => i = j}

\* lines 8-14: candidates and written = 0
ConvertStart ==
    /\ prog = "convert"
    /\ cv.pc \in {"idle", "returned"}
    /\ cv.runs < MaxRuns
    /\ \E cand \in Perms({s \in Srcs : raw[s].present}) :
          cv' = [pc |-> "loop", todo |-> cand, seen |-> {}, written |-> 0,
                 runs |-> cv.runs + 1, logStart |-> Len(emptyLog), counted |-> {},
                 lastSrc |-> 0, lastOutcome |-> "none"]
    /\ UNCHANGED <<prog, raw, outCsv, emptyLog, notConvert>>

\* unzip.py lines 6-24, extract_zip_to_dir(zip_path, RAW, delete_zip), called
\* between two conversions, on an archive that is there and whole (ZipFile raises on a
\* missing or cut one and nothing changes): the members are written under the raw
\* directory; with delete_zip the archive is unlinked, and a failure of unlink
\* is swallowed
ExtractZipToDir ==
    /\ prog = "convert"
    /\ cv.pc \in {"idle", "returned"}
    /\ \E z \in zipDir, delete_zip \in BOOLEAN, unlinkOk \in BOOLEAN :
          LET r == UnzipMembers(ZipMembers(z[1]), raw, <<>>)
          IN /\ z[2] = "whole"
             /\ raw' = r.raw
             /\ uz' = [extracted |-> r.extracted, at |-> cv.runs]
             /\ zipDir' = IF delete_zip /\ unlinkOk THEN zipDir \ {z} ELSE zipDir
    /\ UNCHANGED <<prog, outCsv, emptyLog, cv, varsMerge, nz, ledgerFile, lastRunFile, sp,
                   sr, pa, dl, cw, sq, rp, ag, gd, ms>>

\* an empty-log that is rewritten, not appended to
LogEmptyOverwrite(log, src) == <<src>>

\* lines 29-32, 36-39, 77-80: one line, the source's relative path, is appended
LogEmpty(log, src) == Append(log, src)

\* lines 18-40 and 75: the source is unreadable, or its frame has no rows before
\* or after the normalisation
TakesEmptyPath(f) == ~f.ok \/ f.rows = <<>> \/ NormalizeFrame(f.rows) = <<>>

\* lines 16-40, 75-81: an iteration that ends in the empty-log
ConvertLogEmpty ==
    /\ prog = "convert"
    /\ cv.pc = "loop" /\ cv.todo # <<>>
    /\ LET src == Head(cv.todo)
       IN /\ TakesEmptyPath(raw[src].frame)
          /\ emptyLog' = LogEmpty(emptyLog, src)
          /\ cv' = [cv EXCEPT !.todo = Tail(cv.todo), !.seen = cv.seen \cup {src},
                              !.lastSrc = src, !.lastOutcome = "empty"]
    /\ UNCHANGED <<prog, raw, outCsv, notConvert>>

\* a deletion that does not depend on the write
WriteThenDeleteAlways(out, rows, w, u) ==
    [out |-> IF w = "ok" THEN [exists |-> TRUE, rows |-> rows, complete |-> TRUE] ELSE out,
     deleted |-> u,
     counted |-> u /\ w = "ok",
     outcome |-> IF w # "ok" THEN "write_failed" ELSE IF u THEN "written" ELSE "unlink_failed"]

\* lines 84-91: write_csv, unlink, written += 1 inside one try.  w is what
\* write_csv does (it succeeds, fails before it wrote, or fails after a part of
\* the rows), u whether unlink succeeds
WriteThenDelete(out, rows, w, u) ==
    [out |-> CASE w = "ok" -> [exists |-> TRUE, rows |-> rows, complete |-> TRUE]
               [] w = "fail" -> out
               [] w = "partial" ->
                    [exists |-> TRUE, rows |-> SubSeq(rows, 1, Len(rows) - 1),
                     complete |-> FALSE],
     deleted |-> w = "ok" /\ u,
     counted |-> w = "ok" /\ u,
     outcome |-> IF w # "ok" THEN "write_failed" ELSE IF u THEN "written" ELSE "unlink_failed"]

\* lines 16-91: an iteration that reaches the write
ConvertWrite ==
    /\ prog = "convert"
    /\ cv.pc = "loop" /\ cv.todo # <<>>
    /\ LET src == Head(cv.todo)
       IN /\ ~TakesEmptyPath(raw[src].frame)
          /\ \E w \in {"ok", "fail", "partial"}, u \in BOOLEAN :
                LET r == WriteThenDelete(outCsv, NormalizeFrame(raw[src].frame.rows), w, u)
                IN /\ outCsv' = r.out
                   /\ raw' = [raw EXCEPT ![src].present = ~r.deleted]
                   /\ cv' = [cv EXCEPT !.todo = Tail(cv.todo),
                                       !.seen = cv.seen \cup {src},
                                       !.written = cv.written + (IF r.counted THEN 1 ELSE 0),
                                       !.counted = IF r.counted THEN cv.counted \cup {src}
                                                   ELSE cv.counted,
                                       !.lastSrc = src, !.lastOutcome = r.outcome]
    /\ UNCHANGED <<prog, emptyLog, notConvert>>

\* line 93: return written
ConvertReturn ==
    /\ prog = "convert"
    /\ cv.pc = "loop" /\ cv.todo = <<>>
    /\ cv' = [cv EXCEPT !.pc = "returned"]
    /\ UNCHANGED <<prog, raw, outCsv, emptyLog, notConvert>>

NextConvert ==
    \/ ExtractZipToDir
    \/ ConvertStart
    \/ ConvertLogEmpty
    \/ ConvertWrite
    \/ ConvertReturn

SpecConvert == InitConvert /\ [][NextConvert]_vars

-----------------------------------------------------------------------------
(* Claims about convert_txt_csv.                                           *)

\* the valid rows of a source: the rows with a non-blank c2, as repaired
ValidRows(f) ==
    IF f.ok THEN {RepairRow(PadRow(f.rows[i])) :
                     i \in {j \in 1..Len(f.rows) : ~IsBlank(PadRow(f.rows[j])[2])}}
    ELSE {}

\* a source with no valid row: unreadable, no rows, or only rows with a blank c2
EmptyResult(f) == ValidRows(f) = {}

\* C5: every valid row of every source that was deleted is in the CSV output
\* (stated for the states in which the output is a completed write).
C5_NoRowLost ==
    outCsv.complete =>
        \A s \in Srcs :
            ~raw[s].present => ValidRows(raw[s].frame) \subseteq Range(outCsv.rows)

\* C6: a source is removed only in a step that wrote its rows completely to the
\* CSV output and counted it; a step whose write fails keeps every source,
\* leaves the count alone and stays in the loop with the next source.
C6_DeleteGatedOnWrite ==
    [][/\ \A s \in Srcs :
            (raw[s].present /\ ~raw'[s].present) =>
                /\ outCsv'.exists /\ outCsv'.complete
                /\ Range(outCsv'.rows) = ValidRows(raw[s].frame)
                /\ cv'.written = cv.written + 1
       /\ (cv.pc = "loop" /\ cv'.seen # cv.seen /\ cv'.lastOutcome = "write_failed") =>
                /\ raw' = raw
                /\ cv'.written = cv.written
                /\ cv'.pc = "loop"
                /\ cv'.todo = Tail(cv.todo)]_vars

\* C6 witness: the write of a source failed, the source is still there, and the
\* loop went on to convert and delete the next one
C6_Witness ==
    /\ cv.pc = "returned"
    /\ cv.written = 1
    /\ \E s \in Srcs : raw[s].present /\ ~EmptyResult(raw[s].frame) /\ s \in cv.seen
    /\ \E s \in Srcs : ~raw[s].present
    /\ cv.lastOutcome = "written"
    /\ cv.runs = 1

\* the lines this run appended to the empty-log
RunLog == SubSeq(emptyLog, cv.logStart + 1, Len(emptyLog))

\* C7: a source of this run with an empty result is still there, has exactly one
\* line in the empty-log from this run and is not counted as written; no other
\* source has a line from this run (stated for the states in which no later
\* extract_zip_to_dir call has replaced the sources the run read).
C7_EmptyResultSafety ==
    (cv.pc \in {"loop", "returned"} /\ uz.at < cv.runs) =>
        /\ \A s \in cv.seen :
              EmptyResult(raw[s].frame) =>
                  /\ raw[s].present
                  /\ Occurrences(RunLog, s) = 1
                  /\ s \notin cv.counted
        /\ \A s \in Srcs :
              (s \notin cv.seen \/ ~EmptyResult(raw[s].frame)) => Occurrences(RunLog, s) = 0
        /\ cv.written = Cardinality(cv.counted)

\* C7 witness: a run over an unreadable source and a source whose only row has a
\* blank c2 logged both
C7_Witness ==
    /\ cv.pc = "returned"
    /\ Len(RunLog) = 2
    /\ \E s \in cv.seen : ~raw[s].frame.ok
    /\ \E s \in cv.seen : raw[s].frame.ok /\ raw[s].frame.rows # <<>>
                            /\ EmptyResult(raw[s].frame)
    /\ \A s \in Srcs : raw[s].present
    /\ cv.written = 0

-----------------------------------------------------------------------------
(* extract.py: extract_new_zips and SECFtdSpider                           *)

NumUrl == 3
MaxExtractRuns == 2

\* the zip URLs of the index page; sorted(hrefs) is their numeric order
Urls == 1..NumUrl

\* lines 131-133: _zip_filename, the last component of the path of the URL
\* ("download.zip" where it is empty); URL 1 has a file name of its own, the
\* URLs 2 and 3 have the same file name in different folders of the site, and
\* so on in pairs
ZipFilename(url) == (url \div 2) + 1

\* saved_paths for saved_urls
PathsOf(saved) == [i \in 1..Len(saved) |-> ZipFilename(saved[i])]

\* limit: None is <<>>, an int n is <<n>>
Limits == {<<>>, <<0>>, <<1>>}

NoLedger == [state |-> "absent", urls |-> {}]

ValidLedger(urls) == [state |-> "valid", urls |-> urls]

\* what is left of the file when write_text is cut short: no valid JSON
TornLedger == [state |-> "corrupt", urls |-> {}]

\* the URLs a ledger file holds
LedgerSet(f) == IF f.state = "valid" THEN f.urls ELSE {}

\* a load that takes the stored URLs whether or not the read succeeded
LoadLedgerStrict(f, readOk) == IF f.state = "absent" THEN {} ELSE f.urls

\* lines 23-30: _load_ledger; readOk is whether read_text and json.loads succeed
\* on a file that holds valid JSON
LoadLedger(f, readOk) ==
    IF f.state = "absent" THEN {}
    ELSE IF f.state = "valid" /\ readOk THEN f.urls
    ELSE {}

NoLastRun == [exists |-> FALSE, valid |-> FALSE, urls |-> <<>>, paths |-> <<>>]

\* lines 205-208: the last-run file as json.dumps of this run's lists
LastRun(saved) == [exists |-> TRUE, valid |-> TRUE, urls |-> saved, paths |-> PathsOf(saved)]

\* what is left of the last-run file when write_text is cut short: no valid JSON
TornLastRun == [exists |-> TRUE, valid |-> FALSE, urls |-> <<>>, paths |-> <<>>]

\* a zip file in downloads_dir: the whole body of the response, or its first
\* bytes when write_bytes was cut short
ZipFile(url, content) == <<ZipFilename(url), content>>

\* the names of the files in downloads_dir
ZipNames(dir) == {z[1] : z \in dir}

\* toYield: the requests parse_index has not yielded yet; stored: the URLs whose
\* zip file was written in full at some time
SpIdle == [pc |-> "idle", ledger |-> {}, limit |-> <<>>, listed |-> {}, toYield |-> <<>>,
           requested |-> {}, pending |-> {}, savedUrls |-> <<>>, failed |-> {},
           prevFailed |-> {}, atStart |-> {}, loadFailed |-> FALSE, runs |-> 0,
           stored |-> {}, result |-> <<>>]

InitExtract ==
    /\ prog = "extract"
    /\ ledgerFile = NoLedger
    /\ zipDir = {}
    /\ lastRunFile = NoLastRun
    /\ sp = SpIdle
    /\ MergeOff /\ ConvertOff /\ NormalizeOff /\ SampleOff /\ ProbesOff

\* lines 222-238 and 96-110: the ledger is loaded and the spider constructed
ExtractStart(limit, readOk) ==
    /\ prog = "extract"
    /\ sp.pc \in {"idle", "returned"}
    /\ sp.runs < MaxExtractRuns
    /\ sp' = [SpIdle EXCEPT !.pc = "start",
                            !.ledger = LoadLedger(ledgerFile, readOk),
                            !.limit = limit,
                            !.prevFailed = sp.failed,
                            !.stored = sp.stored,
                            !.atStart = LedgerSet(ledgerFile),
                            !.loadFailed = ledgerFile.state = "corrupt"
                                           \/ (ledgerFile.state = "valid" /\ ~readOk),
                            !.runs = sp.runs + 1]
    /\ UNCHANGED <<prog, ledgerFile, zipDir, lastRunFile, notExtract>>

RECURSIVE Sorted(_)
\* sorted(hrefs)
Sorted(S) ==
    IF S = {} THEN <<>>
    ELSE LET x == CHOOSE x \in S : \A y \in S : x <= y
         IN <<x>> \o Sorted(S \ {x})

\* new_hrefs[: max(0, int(limit))]
Cut(q, limit) ==
    IF limit = <<>> THEN q
    ELSE SubSeq(q, 1, IF limit[1] < Len(q) THEN (IF limit[1] < 0 THEN 0 ELSE limit[1])
                      ELSE Len(q))

\* a filter that forgets the ledger
NewHrefsAll(hrefs, ledger, limit) == Cut(Sorted(hrefs), limit)

\* lines 170-175: new_hrefs
NewHrefs(hrefs, ledger, limit) == Cut(Sorted({u \in hrefs : u \notin ledger}), limit)

\* lines 158-178: parse_index on the links the index page holds, up to its
\* loop; no link at all also stands for an index request that fails, where
\* parse_index is not called
ParseIndex(hrefs) ==
    /\ prog = "extract"
    /\ sp.pc = "start"
    /\ sp' = [sp EXCEPT !.pc = "fetching", !.listed = hrefs,
                        !.toYield = NewHrefs(hrefs, sp.ledger, sp.limit)]
    /\ UNCHANGED <<prog, ledgerFile, zipDir, lastRunFile, notExtract>>

\* lines 179-180: the generator yields the request for the next new URL; the
\* engine may run the callbacks of earlier requests before it resumes it
YieldRequest ==
    /\ prog = "extract"
    /\ sp.pc = "fetching"
    /\ sp.toYield # <<>>
    /\ sp' = [sp EXCEPT !.toYield = Tail(sp.toYield),
                        !.requested = sp.requested \cup {Head(sp.toYield)},
                        !.pending = sp.pending \cup {Head(sp.toYield)}]
    /\ UNCHANGED <<prog, ledgerFile, zipDir, lastRunFile, notExtract>>

\* a callback that records the URL whatever the response was
SavedAfterAlways(saved, url, status, w) == Append(saved, url)

\* lines 182-195: saved_urls after save_zip; w is what write_bytes does: "ok",
\* "raise" (the file is not touched) or "torn" (cut short)
SavedAfter(saved, url, status, w) ==
    IF status = 200 /\ w = "ok" THEN Append(saved, url) ELSE saved

\* lines 187-190: downloads_dir after save_zip; write_bytes replaces the file of
\* that name, be it of an earlier download of this URL or of another URL
ZipDirAfter(dir, url, status, w) ==
    IF status = 200 /\ w # "raise"
    THEN {z \in dir : z[1] # ZipFilename(url)}
         \cup {ZipFile(url, IF w = "ok" THEN "whole" ELSE "torn")}
    ELSE dir

\* lines 182-195: save_zip on the response to one zip request
SaveZip(url, status, w) ==
    /\ prog = "extract"
    /\ sp.pc = "fetching"
    /\ url \in sp.pending
    /\ sp' = [sp EXCEPT !.pending = sp.pending \ {url},
                        !.savedUrls = SavedAfter(sp.savedUrls, url, status, w),
                        !.failed = IF status = 200 /\ w = "ok" THEN sp.failed
                                   ELSE sp.failed \cup {url},
                        !.stored = IF status = 200 /\ w = "ok" THEN sp.stored \cup {url}
                                   ELSE sp.stored]
    /\ zipDir' = ZipDirAfter(zipDir, url, status, w)
    /\ UNCHANGED <<prog, ledgerFile, lastRunFile, notExtract>>

\* lines 145-156: a zip request that raises or gets a status that is not handled:
\* save_zip is not called
ZipRequestFails(url) ==
    /\ prog = "extract"
    /\ sp.pc = "fetching"
    /\ url \in sp.pending
    /\ sp' = [sp EXCEPT !.pending = sp.pending \ {url},
                        !.failed = sp.failed \cup {url}]
    /\ UNCHANGED <<prog, ledgerFile, zipDir, lastRunFile, notExtract>>

\* lines 199-201 and 33-35: the ledger file after closed(); w is what write_text
\* does: "ok", "raise" (nothing written) or "torn" (cut short)
LedgerAfterClosed(f, saved, readOk, w) ==
    CASE w = "ok" -> ValidLedger(LoadLedger(f, readOk) \cup Range(saved))
      [] w = "raise" -> f
      [] w = "torn" -> TornLedger

\* lines 203-210: the last-run file after closed(); w is what _save_ledger did
\* (an exception of it leaves closed() before line 203), lw what write_text of
\* the last-run file does: "ok", "raise" (the file is not touched) or "torn"
LastRunAfterClosed(f, saved, w, lw) ==
    IF w # "ok" THEN f
    ELSE CASE lw = "ok" -> LastRun(saved)
           [] lw = "raise" -> f
           [] lw = "torn" -> TornLastRun

\* lines 197-210: closed(), once every request is done
Closed(readOk, w, lw) ==
    /\ prog = "extract"
    /\ sp.pc = "fetching"
    /\ sp.toYield = <<>>
    /\ sp.pending = {}
    /\ ledgerFile' = LedgerAfterClosed(ledgerFile, sp.savedUrls, readOk, w)
    /\ lastRunFile' = LastRunAfterClosed(lastRunFile, sp.savedUrls, w, lw)
    /\ sp' = [sp EXCEPT !.pc = "closed"]
    /\ UNCHANGED <<prog, zipDir, notExtract>>

\* lines 241-247: saved_paths as read back from the last-run file; readOk is
\* whether read_text succeeds; a file that cannot be read or parsed gives []
SavedPaths(f, readOk) == IF f.exists /\ f.valid /\ readOk THEN f.paths ELSE <<>>

\* lines 240-249: the saved paths are read back from the last-run file
ExtractReturn(readOk) ==
    /\ prog = "extract"
    /\ sp.pc = "closed"
    /\ sp' = [sp EXCEPT !.pc = "returned", !.result = SavedPaths(lastRunFile, readOk)]
    /\ UNCHANGED <<prog, ledgerFile, zipDir, lastRunFile, notExtract>>

NextExtract ==
    \/ \E limit \in Limits, readOk \in BOOLEAN : ExtractStart(limit, readOk)
    \/ \E hrefs \in SUBSET Urls : ParseIndex(hrefs)
    \/ YieldRequest
    \/ \E url \in Urls, status \in {200, 404}, w \in {"ok", "raise", "torn"} :
          SaveZip(url, status, w)
    \/ \E url \in Urls : ZipRequestFails(url)
    \/ \E readOk \in BOOLEAN, w \in {"ok", "raise", "torn"}, lw \in {"ok", "raise", "torn"} :
          Closed(readOk, w, lw)
    \/ \E readOk \in BOOLEAN : ExtractReturn(readOk)

SpecExtract == InitExtract /\ [][NextExtract]_vars

\* C1: the ledger file after a run holds every URL it held after the run before
\* (stated for the runs whose closed() wrote the ledger file in full).
C1_LedgerMonotone ==
    (sp.pc \in {"closed", "returned"} /\ ledgerFile.state = "valid") =>
        sp.atStart \subseteq LedgerSet(ledgerFile)

-----------------------------------------------------------------------------
(* sample.process.py: run and _process_distribution_archive                *)

NumDist == 2
MaxSampleRuns == 2

\* the distributions of the catalog; distribution d has the d-th process date
Dists == 1..NumDist

\* process_date.strftime("%Y%m%d"): the 15th of month d of 2024
ProcDate(d) == Str8(2, 0, 2, 4, 0, d, 1, 5)

\* the tickers of the records, as normalised: "A", "B"
Tickers == {<<65>>, <<66>>}

UniverseDest(d) == <<"universe", ProcDate(d)>>

EntityDest(t) == <<"entity", LowerText(t)>>

SampleDests == {UniverseDest(d) : d \in Dists} \cup {EntityDest(t) : t \in Tickers}

\* what the download URL of a distribution serves: bytes that are no zip, a zip
\* without members, or a zip whose first member holds these records (ticker,
\* settlement day): the lines that lines 294-303 take, which are parsed, have
\* a ticker and pass the filter of allowed_tickers
BadZip == [zip |-> FALSE, members |-> 0, records |-> <<>>]

EmptyZip == [zip |-> TRUE, members |-> 0, records |-> <<>>]

Zip(records) == [zip |-> TRUE, members |-> 1, records |-> records]

Archives ==
    {BadZip, EmptyZip, Zip(<<>>), Zip(<< <<(<<65>>), 1>> >>),
     Zip(<< <<(<<66>>), 1>>, <<(<<65>>), 2>>, <<(<<66>>), 1>> >>)}

\* lines 305-316: data_line (process date, settlement day)
DataLine(d, rec) == ProcDate(d) \o <<Comma, 48 + rec[2]>>

\* lines 321-330: uni_line (ticker, settlement day)
UniLine(rec) == rec[1] \o <<Comma, 48 + rec[2]>>

RECURSIVE TickerOrder(_, _)
\* the keys of symbol_lines, in insertion order
TickerOrder(records, seen) ==
    IF records = <<>> THEN <<>>
    ELSE IF records[1][1] \in seen THEN TickerOrder(Tail(records), seen)
    ELSE <<records[1][1]>> \o TickerOrder(Tail(records), seen \cup {records[1][1]})

RECURSIVE LinesOf(_, _, _)
\* symbol_lines[ticker]
LinesOf(d, records, t) ==
    IF records = <<>> THEN <<>>
    ELSE (IF records[1][1] = t THEN <<DataLine(d, records[1])>> ELSE <<>>)
         \o LinesOf(d, Tail(records), t)

RECURSIVE UniLines(_)
\* universe_lines
UniLines(records) ==
    IF records = <<>> THEN <<>>
    ELSE <<UniLine(records[1])>> \o UniLines(Tail(records))

\* the universe file is written before the per-symbol files
SavesForUniverseFirst(d, records) ==
    LET ts == TickerOrder(records, {})
    IN (IF records # <<>> THEN << <<UniverseDest(d), UniLines(records)>> >> ELSE <<>>)
       \o [i \in 1..Len(ts) |-> <<EntityDest(ts[i]), LinesOf(d, records, ts[i])>>]

\* lines 334-339: the calls of _save_content_to_file, in order: one per ticker,
\* then the universe file when there are universe lines
SavesFor(d, records) ==
    LET ts == TickerOrder(records, {})
    IN [i \in 1..Len(ts) |-> <<EntityDest(ts[i]), LinesOf(d, records, ts[i])>>]
       \o (IF records # <<>> THEN << <<UniverseDest(d), UniLines(records)>> >> ELSE <<>>)

\* lines 406-445: the files a complete call of _save_content_to_file may leave
SaveResult(fs, dest, batch) ==
    IF batch = <<>> \/ AllLines(fs[dest], batch) = {} THEN {fs}
    ELSE {[fs EXCEPT ![dest] = File(ord)] : ord \in MergedRows(dest[1], fs[dest], batch)}

RECURSIVE ApplySaves(_, _)
ApplySaves(fs, saves) ==
    IF saves = <<>> THEN {fs}
    ELSE UNION {ApplySaves(g, Tail(saves)) : g \in SaveResult(fs, saves[1][1], saves[1][2])}

\* lines 269-272: _already_processed
AlreadyProcessed(fs, d) == fs[UniverseDest(d)].exists

SrIdle == [pc |-> "idle", today |-> 0, listed |-> {}, todo |-> <<>>, attempted |-> {},
           tries |-> <<>>, doneAtStart |-> {},
           ret |-> [d |-> 0, kind |-> "none", rows |-> 0, wrote |-> FALSE],
           skipped |-> {}, failed |-> {}, prevFailed |-> {}, fetchedOk |-> {},
           processedAny |-> FALSE, runs |-> 0]

InitSample ==
    /\ prog = "sample"
    /\ files = [d \in SampleDests |-> Absent]
    /\ \E remote \in [Dists -> Archives] :
          sr = [SrIdle EXCEPT !.today = 0] @@ [remote |-> remote]
    /\ mw = <<>> /\ last = <<>> /\ strayTmp = 0 /\ crashes = 0
    /\ ConvertOff /\ NormalizeOff /\ ExtractOff /\ ProbesOff

\* lines 95-101 and 147-172: today and the distributions the catalog lists, by
\* process date; none listed also stands for a catalog page that could not be
\* fetched.  namesOk is whether every file name of the page that
\* _try_parse_distribution_file_name accepts has a year and month dt.date
\* takes: for another one _get_processing_date raises ValueError (line 255),
\* outside the try of run(), and run() ends with it
RunStart(today, listed, namesOk) ==
    /\ prog = "sample"
    /\ sr.pc \in {"idle", "returned", "raised"}
    /\ sr.runs < MaxSampleRuns
    /\ today >= sr.today
    /\ sr' = [sr EXCEPT !.pc = IF ~namesOk THEN "raised"
                               ELSE IF listed = {} THEN "returned" ELSE "loop",
                        !.today = today, !.listed = listed,
                        !.todo = IF namesOk THEN Sorted(listed) ELSE <<>>,
                        !.attempted = {}, !.skipped = {}, !.failed = {},
                        !.tries = <<>>,
                        !.doneAtStart = {d \in Dists : AlreadyProcessed(files, d)},
                        !.prevFailed = sr.failed,
                        !.processedAny = FALSE, !.runs = sr.runs + 1]
    /\ UNCHANGED <<prog, files, notSample>>

\* lines 104-109: a distribution of the future or already processed is passed over
RunSkip ==
    /\ prog = "sample"
    /\ sr.pc = "loop" /\ sr.todo # <<>>
    /\ LET d == Head(sr.todo)
       IN /\ d > sr.today \/ AlreadyProcessed(files, d)
          /\ sr' = [sr EXCEPT !.todo = Tail(sr.todo), !.skipped = sr.skipped \cup {d}]
    /\ UNCHANGED <<prog, files, notSample>>

\* lines 127-128: except Exception: the error is printed and the loop goes on
Caught(s, raised) == s

\* lines 111-128, download part: _download_binary returns b"" (404, "empty") or
\* raises (retries exhausted, "raise"); the loop goes on
RunDownloadFails(o) ==
    /\ prog = "sample"
    /\ sr.pc = "loop" /\ sr.todo # <<>>
    /\ LET d == Head(sr.todo)
       IN /\ d <= sr.today /\ ~AlreadyProcessed(files, d)
          /\ sr' = Caught([sr EXCEPT !.todo = Tail(sr.todo),
                                     !.attempted = sr.attempted \cup {d},
                                     !.tries = Append(sr.tries, d),
                                     !.failed = sr.failed \cup {d}],
                          o = "raise")
    /\ UNCHANGED <<prog, files, notSample>>

\* lines 111-128 and 274-341: the blob is downloaded and processed; k of the
\* calls of _save_content_to_file succeed and the next one, if any, raises
RunProcess(k) ==
    /\ prog = "sample"
    /\ sr.pc = "loop" /\ sr.todo # <<>>
    /\ LET d == Head(sr.todo)
           a == sr.remote[d]
           saves == IF a.zip /\ a.members > 0 THEN SavesFor(d, a.records) ELSE <<>>
       IN /\ d <= sr.today /\ ~AlreadyProcessed(files, d)
          /\ k <= Len(saves)
          /\ files' \in ApplySaves(files, SubSeq(saves, 1, k))
          /\ sr' = Caught([sr EXCEPT !.todo = Tail(sr.todo),
                                     !.attempted = sr.attempted \cup {d},
                                     !.tries = Append(sr.tries, d),
                                     !.fetchedOk = sr.fetchedOk \cup {d},
                                     !.ret = [d |-> d,
                                              kind |-> IF ~a.zip \/ k < Len(saves)
                                                       THEN "raised" ELSE "value",
                                              rows |-> IF ~a.zip \/ k < Len(saves)
                                                       THEN 0 ELSE Len(a.records),
                                              wrote |-> files' # files],
                                     !.failed = IF ~a.zip \/ k < Len(saves)
                                                THEN sr.failed \cup {d} ELSE sr.failed,
                                     !.processedAny = sr.processedAny
                                         \/ (a.zip /\ k = Len(saves) /\ Len(a.records) > 0)],
                          ~a.zip \/ k < Len(saves))
    /\ UNCHANGED <<prog, notSample>>

\* lines 130-131: return processed_any
RunReturn ==
    /\ prog = "sample"
    /\ sr.pc = "loop" /\ sr.todo = <<>>
    /\ sr' = [sr EXCEPT !.pc = "returned"]
    /\ UNCHANGED <<prog, files, notSample>>

NextSample ==
    \/ \E today \in 0..NumDist, listed \in SUBSET Dists, namesOk \in BOOLEAN :
          RunStart(today, listed, namesOk)
    \/ RunSkip
    \/ \E o \in {"empty", "raise"} : RunDownloadFails(o)
    \/ \E k \in 0..(Cardinality(Tickers) + 1) : RunProcess(k)
    \/ RunReturn

SpecSample == InitSample /\ [][NextSample]_vars

\* both fetch programs: a behaviour is a behaviour of one of them
InitIngest == InitExtract \/ InitSample

NextIngest == NextExtract \/ NextSample

SpecIngest == InitIngest /\ [][NextIngest]_vars

\* the new URLs of this run that sort before u
NewBefore(u) == {v \in sp.listed : v \notin sp.ledger /\ v < u}

\* u is on the index page, not in the ledger this run loaded, and within the
\* first `limit` new URLs of this run
Discovered(u) ==
    /\ u \in sp.listed
    /\ u \notin sp.ledger
    /\ sp.limit = <<>> \/ Cardinality(NewBefore(u)) < sp.limit[1]

\* every line the archive of distribution d yields for a ticker is in that
\* ticker's file
EntityLinesSaved(d) ==
    \A t \in Tickers :
        Range(LinesOf(d, sr.remote[d].records, t)) \subseteq ExistingLines(files[EntityDest(t)])

\* C8: a URL is in the ledger only if its zip file was written in full, and a
\* distribution counts as processed only if its archive was downloaded and all its
\* per-ticker lines were saved; an item that fails in a run is not recorded by that
\* run, and an item that failed in the run before is requested again by a run that
\* discovers it.
C8_RecordedAfterPersisted ==
    /\ prog = "extract" =>
          /\ LedgerSet(ledgerFile) \subseteq sp.stored
          /\ \A u \in Range(sp.savedUrls) : ZipFilename(u) \in ZipNames(zipDir)
          /\ sp.failed \cap Range(sp.savedUrls) = {}
          /\ (sp.pc \in {"fetching", "closed", "returned"} /\ sp.toYield = <<>>) =>
                \A u \in sp.prevFailed : Discovered(u) => u \in sp.requested
    /\ prog = "sample" =>
          /\ \A d \in Dists :
                AlreadyProcessed(files, d) => d \in sr.fetchedOk /\ EntityLinesSaved(d)
          /\ \A d \in sr.failed : ~AlreadyProcessed(files, d)
          /\ sr.pc = "returned" =>
                \A d \in sr.prevFailed : d \in sr.listed => d \in sr.attempted

\* a URL whose fetch failed in the run before was requested again, saved and
\* entered into the ledger
C8_Witness ==
    /\ prog = "extract"
    /\ sp.pc = "closed"
    /\ sp.prevFailed # {}
    /\ sp.prevFailed \subseteq sp.requested
    /\ sp.prevFailed \subseteq LedgerSet(ledgerFile)

\* a distribution whose save failed in the run before was downloaded again and
\* is now marked as processed
C8_WitnessSample ==
    /\ prog = "sample"
    /\ sr.pc = "returned"
    /\ \E d \in sr.prevFailed : d \in sr.attempted /\ AlreadyProcessed(files, d)

\* C8 as stated: an item that failed in the run before is fetched again by the
\* next run; checked here for the items the next run finds listed and that are
\* not in the ledger it loaded.
C8_FailedItemRefetched ==
    /\ (prog = "extract" /\ sp.pc \in {"fetching", "closed", "returned"}
                         /\ sp.toYield = <<>>) =>
          \A u \in sp.prevFailed :
              (u \in sp.listed /\ u \notin sp.ledger) => u \in sp.requested
    /\ (prog = "sample" /\ sr.pc = "returned") =>
          \A d \in sr.prevFailed : d \in sr.listed => d \in sr.attempted

-----------------------------------------------------------------------------
(* period_parition.py: the period columns of one record.                   *)

\* a value of the column "date"; strptime(strict=False) gives null for a text
\* that is no date
Date(y, m, d) == [y |-> y, m |-> m, d |-> d]

NullDate == Date(0, 0, 0)

\* line 22
cutover == Date(2009, 7, 1)

\* the years of the probe records: a leap year before the cutover, the year of
\* the cutover, a leap year after it
ProbeYears == {2008, 2009, 2012}

ProbeDates ==
    {dt \in [y : ProbeYears, m : 1..12, d : 1..31] : dt.d <= DaysInMonth(dt.y, dt.m)}

DateLess(a, b) ==
    \/ a.y < b.y
    \/ a.y = b.y /\ a.m < b.m
    \/ a.y = b.y /\ a.m = b.m /\ a.d < b.d

\* a comparison of polars: "n" (null) where an operand is null
Lt3(a, b) == IF a = NullDate \/ b = NullDate THEN "n" ELSE IF DateLess(a, b) THEN "t" ELSE "f"

\* pl.col("date").dt.day() <= k
DayLeq3(a, k) == IF a = NullDate THEN "n" ELSE IF a.d <= k THEN "t" ELSE "f"

\* pl.when(c).then(a).otherwise(b): a null condition takes the otherwise branch
When(c, a, b) == IF c = "t" THEN a ELSE b

\* dt.replace(day=k)
ReplaceDay(dt, k) == IF dt = NullDate THEN NullDate ELSE Date(dt.y, dt.m, k)

\* an offset that stays in the year
OffsetMonthNoCarry(dt) ==
    IF dt = NullDate THEN NullDate
    ELSE LET m2 == IF dt.m = 12 THEN 1 ELSE dt.m + 1
             lastDay == DaysInMonth(dt.y, m2)
         IN Date(dt.y, m2, IF dt.d > lastDay THEN lastDay ELSE dt.d)

\* dt.offset_by("1mo"): the same day of the next month, cut to that month's end
OffsetMonth(dt) ==
    IF dt = NullDate THEN NullDate
    ELSE LET y2 == IF dt.m = 12 THEN dt.y + 1 ELSE dt.y
             m2 == IF dt.m = 12 THEN 1 ELSE dt.m + 1
             lastDay == DaysInMonth(y2, m2)
         IN Date(y2, m2, IF dt.d > lastDay THEN lastDay ELSE dt.d)

\* dt.offset_by("-1d")
OffsetDayBack(dt) ==
    IF dt = NullDate THEN NullDate
    ELSE IF dt.d > 1 THEN Date(dt.y, dt.m, dt.d - 1)
    ELSE IF dt.m > 1 THEN Date(dt.y, dt.m - 1, DaysInMonth(dt.y, dt.m - 1))
    ELSE Date(dt.y - 1, 12, 31)

\* line 25
first_of_month(dt) == ReplaceDay(dt, 1)

\* line 26
mid_month(dt) == ReplaceDay(dt, 15)

\* a second half that starts on the 15th
SixteenthAsMid(dt) == ReplaceDay(dt, 15)

\* line 27
sixteenth(dt) == ReplaceDay(dt, 16)

\* a month end taken as the 30th
EndOfMonthThirty(dt) == ReplaceDay(dt, 30)

\* line 28
end_of_month(dt) == OffsetDayBack(OffsetMonth(first_of_month(dt)))

NullText == <<-1>>

\* the decimal digits of n, in w characters
Digits(n, w) == [i \in 1..w |-> 48 + ((n \div (10 ^ (w - i))) % 10)]

\* dt.strftime("%Y-%m")
StrftimeYm(dt) == IF dt = NullDate THEN NullText ELSE Digits(dt.y, 4) \o <<45>> \o Digits(dt.m, 2)

\* text + suffix: null where the text is null
Concat(t, suffix) == IF t = NullText THEN NullText ELSE t \o suffix

\* lines 32-35
Scheme(dt) == When(Lt3(dt, cutover), "monthly_pre_2009_07", "semi_monthly_post_2009_07")

\* lines 37-44
Period(dt) ==
    When(Lt3(dt, cutover), StrftimeYm(dt),
         When(DayLeq3(dt, 15), Concat(StrftimeYm(dt), <<45, 72, 49>>),
                               Concat(StrftimeYm(dt), <<45, 72, 50>>)))

\* lines 46-51
PeriodStart(dt) ==
    When(Lt3(dt, cutover), first_of_month(dt),
         When(DayLeq3(dt, 15), first_of_month(dt), sixteenth(dt)))

\* lines 53-58
PeriodEnd(dt) ==
    When(Lt3(dt, cutover), end_of_month(dt),
         When(DayLeq3(dt, 15), mid_month(dt), end_of_month(dt)))

\* an estimate whose following month stays in the year
ReleaseDateEstNoCarry(dt, scheme) ==
    IF scheme = "semi_monthly_post_2009_07"
    THEN When(DayLeq3(dt, 15), end_of_month(dt),
              ReplaceDay(OffsetMonthNoCarry(first_of_month(dt)), 15))
    ELSE NullDate

\* lines 62-71
ReleaseDateEst(dt, scheme) ==
    IF scheme = "semi_monthly_post_2009_07"
    THEN When(DayLeq3(dt, 15), end_of_month(dt),
              ReplaceDay(OffsetMonth(first_of_month(dt)), 15))
    ELSE NullDate

\* lines 31-71: the columns added to one record
PeriodRow(dt) ==
    [scheme |-> Scheme(dt), period |-> Period(dt), period_start |-> PeriodStart(dt),
     period_end |-> PeriodEnd(dt), release_date_est |-> ReleaseDateEst(dt, Scheme(dt))]

NoPeriodRow ==
    [scheme |-> "", period |-> <<>>, period_start |-> NullDate, period_end |-> NullDate,
     release_date_est |-> NullDate]

InitPeriod ==
    /\ prog = "period"
    /\ pa \in {[date |-> dt, row |-> NoPeriodRow, done |-> FALSE] :
                 dt \in ProbeDates \cup {NullDate}}
    /\ MergeOff /\ ConvertOff /\ NormalizeOff /\ ExtractOff /\ SampleOff
    /\ DownloadOff /\ WritersOff /\ SortProbeOff /\ LateOff

\* lines 31-71 on a frame of one record
PeriodApply ==
    /\ prog = "period"
    /\ ~pa.done
    /\ pa' = [pa EXCEPT !.row = PeriodRow(pa.date), !.done = TRUE]
    /\ UNCHANGED <<prog, notPeriod>>

NextPeriod == PeriodApply

SpecPeriod == InitPeriod /\ [][NextPeriod]_vars

-----------------------------------------------------------------------------
(* Claims about the period columns.                                        *)

\* the last calendar day of the month of dt
LastDayOfMonth(dt) == Date(dt.y, dt.m, DaysInMonth(dt.y, dt.m))

DateLeq(a, b) == a = b \/ DateLess(a, b)

\* the record has been given its columns and its date is no null
Assigned == pa.done /\ pa.date # NullDate

\* C11: a record settled before 2009-07-01 gets the monthly scheme: the period is
\* its year-month label, from the first to the last calendar day of the month,
\* and there is no release date estimate.
C11_PreCutoverMonthly ==
    (Assigned /\ DateLess(pa.date, cutover)) =>
        /\ pa.row.scheme = "monthly_pre_2009_07"
        /\ pa.row.period = Digits(pa.date.y, 4) \o <<45>> \o Digits(pa.date.m, 2)
        /\ pa.row.period_start = Date(pa.date.y, pa.date.m, 1)
        /\ pa.row.period_end = LastDayOfMonth(pa.date)
        /\ pa.row.release_date_est = NullDate

\* 2009-06-30 gives 2009-06, 2009-06-01, 2009-06-30
C11_Witness ==
    /\ pa.done
    /\ pa.date = Date(2009, 6, 30)
    /\ pa.row.period = <<50, 48, 48, 57, 45, 48, 54>>
    /\ pa.row.period_start = Date(2009, 6, 1)
    /\ pa.row.period_end = Date(2009, 6, 30)

\* C12: a record settled on or after 2009-07-01 gets the semi-monthly scheme: up
\* to the 15th it is in H1, from the 1st to the 15th, afterwards in H2, from the
\* 16th to the last day of the month; its date lies within its period and the
\* cutover date is in 2009-07-H1.
C12_PostCutoverSemiMonthly ==
    (Assigned /\ ~DateLess(pa.date, cutover)) =>
        /\ pa.row.scheme = "semi_monthly_post_2009_07"
        /\ pa.date.d <= 15 =>
              /\ pa.row.period = Digits(pa.date.y, 4) \o <<45>> \o Digits(pa.date.m, 2)
                                  \o <<45, 72, 49>>
              /\ pa.row.period_start = Date(pa.date.y, pa.date.m, 1)
              /\ pa.row.period_end = Date(pa.date.y, pa.date.m, 15)
        /\ pa.date.d > 15 =>
              /\ pa.row.period = Digits(pa.date.y, 4) \o <<45>> \o Digits(pa.date.m, 2)
                                  \o <<45, 72, 50>>
              /\ pa.row.period_start = Date(pa.date.y, pa.date.m, 16)
              /\ pa.row.period_end = LastDayOfMonth(pa.date)
        /\ DateLeq(pa.row.period_start, pa.date) /\ DateLeq(pa.date, pa.row.period_end)
        /\ pa.date = cutover => pa.row.period = <<50, 48, 48, 57, 45, 48, 55, 45, 72, 49>>

\* 2012-02-16 is in 2012-02-H2, from the 16th to the 29th
C12_Witness ==
    /\ pa.done
    /\ pa.date = Date(2012, 2, 16)
    /\ pa.row.period = <<50, 48, 49, 50, 45, 48, 50, 45, 72, 50>>
    /\ pa.row.period_start = Date(2012, 2, 16)
    /\ pa.row.period_end = Date(2012, 2, 29)

\* C13: a semi-monthly record in H1 is estimated to be released on the last day
\* of its month, one in H2 on the 15th of the following month, which after
\* December is January of the next year.
C13_ReleaseDateEst ==
    (Assigned /\ pa.row.scheme = "semi_monthly_post_2009_07") =>
        /\ pa.date.d <= 15 => pa.row.release_date_est = LastDayOfMonth(pa.date)
        /\ (pa.date.d > 15 /\ pa.date.m < 12) =>
              pa.row.release_date_est = Date(pa.date.y, pa.date.m + 1, 15)
        /\ (pa.date.d > 15 /\ pa.date.m = 12) =>
              pa.row.release_date_est = Date(pa.date.y + 1, 1, 15)

\* 2009-12-20 gives 2010-01-15
C13_Witness ==
    /\ pa.done
    /\ pa.date = Date(2009, 12, 20)
    /\ pa.row.scheme = "semi_monthly_post_2009_07"
    /\ pa.row.release_date_est = Date(2010, 1, 15)

-----------------------------------------------------------------------------
(* sample.process.py: _http_get_text and _download_binary.                 *)

\* line 27
MAX_RETRIES == 5

\* line 28
REQUEST_SLEEP_BASE == 1

\* what one session.get attempt comes to: a good response, a 404, an exception
\* of the request (timeout, connection), or a status raise_for_status rejects
Responses == {"ok", "404", "exception", "status"}

DlStart(kind) ==
    [kind |-> kind, pc |-> "get", attempt |-> 1, log |-> <<>>, sleeps |-> <<>>,
     result |-> "none"]

InitDownload ==
    /\ prog = "download"
    /\ dl \in {DlStart("text"), DlStart("binary")}
    /\ MergeOff /\ ConvertOff /\ NormalizeOff /\ ExtractOff /\ SampleOff
    /\ PeriodOff /\ WritersOff /\ SortProbeOff /\ LateOff

\* a 404 handled like any other bad status
AfterResponseRetry404(d, r) ==
    IF r = "ok" THEN [d EXCEPT !.pc = "done", !.result = "payload", !.log = Append(d.log, r)]
    ELSE [d EXCEPT !.pc = "sleep", !.log = Append(d.log, r)]

\* lines 176-183 and 191-198: the try block of one attempt
AfterResponse(d, r) ==
    IF r = "404" THEN [d EXCEPT !.pc = "done", !.result = "empty", !.log = Append(d.log, r)]
    ELSE IF r = "ok" THEN [d EXCEPT !.pc = "done", !.result = "payload", !.log = Append(d.log, r)]
    ELSE [d EXCEPT !.pc = "sleep", !.log = Append(d.log, r)]

\* lines 175-180 and 190-195: one attempt
DlGet(r) ==
    /\ prog = "download"
    /\ dl.pc = "get"
    /\ dl' = AfterResponse(dl, r)
    /\ UNCHANGED <<prog, notDownload>>

\* lines 184-186 and 199-200: the except block, then the next attempt
DlSleepRetry ==
    /\ prog = "download"
    /\ dl.pc = "sleep"
    /\ dl.attempt < MAX_RETRIES
    /\ dl' = [dl EXCEPT !.pc = "get", !.attempt = dl.attempt + 1,
                        !.sleeps = Append(dl.sleeps, REQUEST_SLEEP_BASE * dl.attempt)]
    /\ UNCHANGED <<prog, notDownload>>

\* lines 184-188 and 199-201: the except block of the last attempt, then the
\* end of the loop: "" for text, RuntimeError for binary
DlExhausted ==
    /\ prog = "download"
    /\ dl.pc = "sleep"
    /\ dl.attempt = MAX_RETRIES
    /\ dl' = [dl EXCEPT !.pc = "done",
                        !.sleeps = Append(dl.sleeps, REQUEST_SLEEP_BASE * dl.attempt),
                        !.result = IF dl.kind = "binary" THEN "error" ELSE "empty"]
    /\ UNCHANGED <<prog, notDownload>>

NextDownload ==
    \/ \E r \in Responses : DlGet(r)
    \/ DlSleepRetry
    \/ DlExhausted

SpecDownload == InitDownload /\ [][NextDownload]_vars

\* every attempt returns (the request has a timeout) and the loop goes on
SpecDownloadFair == SpecDownload /\ WF_vars(NextDownload)

\* the attempts of the log that failed
FailedAttempts == {i \in 1..Len(dl.log) : dl.log[i] \in {"exception", "status"}}

DlSafe ==
    /\ Len(dl.log) <= MAX_RETRIES
    /\ Len(dl.sleeps) <= Cardinality(FailedAttempts)
    /\ dl.pc \in {"get", "done"} => Len(dl.sleeps) = Cardinality(FailedAttempts)
    /\ \A i \in 1..Len(dl.sleeps) : dl.sleeps[i] = REQUEST_SLEEP_BASE * i
    /\ \A i \in 1..(Len(dl.sleeps) - 1) : dl.sleeps[i] < dl.sleeps[i + 1]
    /\ \A i \in 1..Len(dl.log) :
          dl.log[i] = "404" => i = Len(dl.log) /\ dl.pc = "done" /\ dl.result = "empty"
    /\ dl.pc = "done" =>
          /\ dl.result \in {"payload", "empty", "error"}
          /\ dl.result = "payload" <=> dl.log[Len(dl.log)] = "ok"
          /\ dl.result = "error" =>
                dl.kind = "binary" /\ Cardinality(FailedAttempts) = MAX_RETRIES

\* C14: a fetch makes at most MAX_RETRIES attempts, sleeps REQUEST_SLEEP_BASE
\* times the attempt number after each failed attempt, ends at once and empty on
\* a 404, and always ends: with the payload, empty, or (binary, retries
\* exhausted) with an error.
C14_BoundedRetry == []DlSafe /\ <>(dl.pc = "done")

\* every attempt of a binary download failed: five attempts, sleeps 1..5, error
C14_Witness ==
    /\ dl.kind = "binary"
    /\ dl.pc = "done"
    /\ Len(dl.log) = MAX_RETRIES
    /\ dl.sleeps = <<1, 2, 3, 4, 5>>
    /\ dl.result = "error"

-----------------------------------------------------------------------------
(* Claims about run().                                                     *)

\* how often d was attempted in the run
Tries(d) == Cardinality({i \in 1..Len(sr.tries) : sr.tries[i] = d})

\* d is due in the run and was not yet processed when the run started
Due(d) == d \in sr.listed /\ d <= sr.today /\ d \notin sr.doneAtStart

\* C15: a failure of one distribution does not keep run() from the others: the
\* run returns, and by then every listed distribution that is due and not yet
\* processed was attempted once, every other not at all.
C15_FailureIsolation ==
    /\ sr.pc # "raised"
    /\ sr.pc = "loop" =>
          \A d \in sr.listed : d \in Range(sr.todo) \/ d \in sr.attempted \/ d \in sr.skipped
    /\ (sr.pc = "returned" /\ sr.listed # {}) =>
          \A d \in Dists : Tries(d) = IF Due(d) THEN 1 ELSE 0

-----------------------------------------------------------------------------
(* sample.process.py: two _save_content_to_file calls on one destination,  *)
(* in two processes; each call has its own temporary file (uuid4).         *)

NumWriters == 2

Writers == 1..NumWriters

\* "20240101,0": a line the destination holds before the calls
LineOld == Str8(2, 0, 2, 4, 0, 1, 0, 1) \o <<Comma, 48>>

WriterBatches == {<<LineX1>>, <<LineX2>>, <<LineX1, LineX2>>, <<LineOld, LineX2>>}

WStart(batch) == [pc |-> "start", batch |-> batch, ordered |-> <<>>, tmp |-> <<>>]

InitWriters ==
    /\ prog = "writers"
    /\ \E folder \in {"universe", "entity"}, f \in {Absent, File(<<LineOld>>)},
          bs \in [Writers -> WriterBatches] :
          cw = [folder |-> folder, old |-> f, file |-> f,
                w |-> [i \in Writers |-> WStart(bs[i])]]
    /\ MergeOff /\ ConvertOff /\ NormalizeOff /\ ExtractOff /\ SampleOff
    /\ PeriodOff /\ DownloadOff /\ SortProbeOff /\ LateOff

\* lines 413-439: writer i reads the destination (no lock is taken), adds its
\* lines and sorts
WRead(i) ==
    /\ prog = "writers"
    /\ cw.w[i].pc = "start"
    /\ \E ord \in MergedRows(cw.folder, cw.file, cw.w[i].batch) :
          cw' = [cw EXCEPT !.w[i].pc = "sorted", !.w[i].ordered = ord]
    /\ UNCHANGED <<prog, notWriters>>

\* lines 441-444: writer i writes its temporary file
WWriteTmp(i) ==
    /\ prog = "writers"
    /\ cw.w[i].pc = "sorted"
    /\ cw' = [cw EXCEPT !.w[i].pc = "written", !.w[i].tmp = cw.w[i].ordered]
    /\ UNCHANGED <<prog, notWriters>>

\* line 445: writer i renames its temporary file onto the destination
WRename(i) ==
    /\ prog = "writers"
    /\ cw.w[i].pc = "written"
    /\ cw' = [cw EXCEPT !.w[i].pc = "done", !.file = File(cw.w[i].tmp)]
    /\ UNCHANGED <<prog, notWriters>>

NextWriters ==
    \/ \E i \in Writers : WRead(i)
    \/ \E i \in Writers : WWriteTmp(i)
    \/ \E i \in Writers : WRename(i)

SpecWriters == InitWriters /\ [][NextWriters]_vars

\* every line the destination should hold once all calls are done
ExpectedLines ==
    ExistingLines(cw.old) \cup UNION {Range(cw.w[i].batch) : i \in Writers}

\* C16: once both calls are done the destination holds the old lines and the
\* lines of both batches.
C16_ConcurrentMergesLoseNothing ==
    (\A i \in Writers : cw.w[i].pc = "done") => ExistingLines(cw.file) = ExpectedLines

-----------------------------------------------------------------------------
(* Claims about the ledger and the requests of a run of extract.py.        *)

\* C17: a ledger file that is missing or cannot be read or parsed loads as the
\* empty set, and the run goes on to fetch: every URL the index lists counts as
\* new (up to the limit).
C17_CorruptLedgerDegrades ==
    /\ (prog = "extract" /\ sp.pc = "start" /\ ledgerFile.state = "absent") => sp.ledger = {}
    /\ (prog = "extract" /\ sp.pc # "idle" /\ sp.loadFailed) =>
          /\ sp.ledger = {}
          /\ (sp.pc \in {"fetching", "closed", "returned"} /\ sp.toYield = <<>>) =>
                sp.requested = Range(Cut(Sorted(sp.listed), sp.limit))

\* the ledger file held a URL and could not be read: the URL is requested again
C17_Witness ==
    /\ sp.pc = "fetching"
    /\ sp.toYield = <<>>
    /\ sp.loadFailed
    /\ sp.atStart # {}
    /\ sp.atStart \subseteq sp.requested

\* C18: a URL in the ledger the run loaded is not requested, at most `limit`
\* URLs are requested, and run() downloads no distribution that was already
\* processed.
C18_KnownItemsSkipped ==
    /\ (prog = "extract" /\ sp.pc \in {"fetching", "closed", "returned"}) =>
          /\ sp.requested \cap sp.ledger = {}
          /\ sp.limit # <<>> => Cardinality(sp.requested) <= sp.limit[1]
    /\ (prog = "sample" /\ sr.pc \in {"loop", "returned"}) =>
          \A d \in sr.attempted : d \notin sr.doneAtStart

\* the index lists a URL of the ledger and a new one: only the new one is requested
C18_Witness ==
    /\ prog = "extract"
    /\ sp.pc = "fetching"
    /\ sp.toYield = <<>>
    /\ sp.ledger # {}
    /\ sp.ledger \subseteq sp.listed
    /\ sp.requested = sp.listed \ sp.ledger
    /\ sp.requested # {}

\* the catalog lists a processed distribution and another one: only the other
\* one is downloaded
C18_WitnessSample ==
    /\ prog = "sample"
    /\ sr.pc = "returned"
    /\ sr.doneAtStart # {}
    /\ sr.doneAtStart \subseteq sr.skipped
    /\ sr.attempted # {}

\* the archive the last _process_distribution_archive call was given is no zip
\* or has no members
LastArchiveUnusable ==
    /\ prog = "sample"
    /\ sr.ret.kind # "none"
    /\ sr.remote[sr.ret.d] \in {BadZip, EmptyZip}

\* C19: processing bytes that are no readable archive, or an archive without
\* members, returns zero rows as a value, writes no file and does not mark the
\* distribution as processed.
C19_MalformedArchiveSoftFailure ==
    LastArchiveUnusable =>
        /\ sr.ret.kind = "value"
        /\ sr.ret.rows = 0
        /\ ~sr.ret.wrote
        /\ ~AlreadyProcessed(files, sr.ret.d)

-----------------------------------------------------------------------------
(* sample.process.py: the order _save_content_to_file writes, on lines     *)
(* whose first fields differ.                                              *)

MaxProbeLines == 3

\* "20241015,1"
LineOct == Str8(2, 0, 2, 4, 1, 0, 1, 5) \o <<Comma, 49>>

\* "202491,1": strptime reads 2024-09-01; as text it follows "20241015"
LineShort == <<50, 48, 50, 52, 57, 49, Comma, 49>>

\* "18991231,1": a date before 1900
LineOldDate == Str8(1, 8, 9, 9, 1, 2, 3, 1) \o <<Comma, 49>>

\* "zz,1": no date
LineNoDate == <<122, 122, Comma, 49>>

\* ",1": an empty first field
LineNoField == <<Comma, 49>>

\* "2024" in fullwidth digits, then "0115,2": strptime reads 2024-01-15; as text
\* it follows every line that starts with an ASCII digit
LineWide == <<65298, 65296, 65298, 65300, 48, 49, 49, 53, Comma, 50>>

SortProbeLines ==
    {LineX1, LineOct, LineShort, LineOldDate, LineNoDate, LineNoField, LineWide}

\* the lines of S as a list
AsBatch(S) == CHOOSE q \in Orderings("universe", S) : TRUE

InitSortProbe ==
    /\ prog = "sort"
    /\ \E folder \in {"universe", "entity"} :
       \E S \in {T \in SUBSET SortProbeLines : Cardinality(T) \in 1..MaxProbeLines} :
          sq = [folder |-> folder, batch |-> AsBatch(S), file |-> Absent, done |-> FALSE]
    /\ MergeOff /\ ConvertOff /\ NormalizeOff /\ ExtractOff /\ SampleOff
    /\ PeriodOff /\ DownloadOff /\ WritersOff /\ LateOff

\* lines 406-445: one call on an absent destination
SortProbeSave ==
    /\ prog = "sort"
    /\ ~sq.done
    /\ \E ord \in MergedRows(sq.folder, sq.file, sq.batch) :
          sq' = [sq EXCEPT !.file = File(ord), !.done = TRUE]
    /\ UNCHANGED <<prog, notSortProbe>>

NextSortProbe == SortProbeSave

SpecSortProbe == InitSortProbe /\ [][NextSortProbe]_vars

\* the first field of the row is a date strptime accepts
Parsable(row) == Strptime(FirstField(row)) # NoDate

\* C20: a universe destination is written in non-decreasing text order of the
\* first field; any other destination in non-decreasing order of the date of the
\* first field, every line without a parsable date before every line with one.
C20_SortOrder ==
    sq.done =>
        LET ls == sq.file.lines
        IN \A i \in 1..Len(ls) : \A j \in (i + 1)..Len(ls) :
              IF sq.folder = "universe"
              THEN StrLeq(FirstField(ls[i]), FirstField(ls[j]))
              ELSE /\ (Parsable(ls[i]) /\ Parsable(ls[j])) =>
                        DateOrd(Strptime(FirstField(ls[i]))) <= DateOrd(Strptime(FirstField(ls[j])))
                   /\ ~(Parsable(ls[i]) /\ ~Parsable(ls[j]))

-----------------------------------------------------------------------------
(* sample.process.py: _try_parse_raw_line, _normalize_ticker and the lines *)
(* _process_distribution_archive builds from a record.                     *)

RECURSIVE Split(_, _)
\* line.split(sep): the fields between the separators, at least one
Split(t, sep) ==
    IF \A i \in 1..Len(t) : t[i] # sep THEN <<t>>
    ELSE LET i == CHOOSE i \in 1..Len(t) : t[i] = sep /\ \A j \in 1..(i - 1) : t[j] # sep
         IN <<SubSeq(t, 1, i - 1)>> \o Split(SubSeq(t, i + 1, Len(t)), sep)

RECURSIVE Join(_, _)
\* sep.join(fields)
Join(fields, sep) ==
    IF fields = <<>> THEN <<>>
    ELSE IF Len(fields) = 1 THEN fields[1]
    ELSE fields[1] \o <<sep>> \o Join(Tail(fields), sep)

\* s.replace(",", "")
RemoveCommas(t) == SelectSeq(t, LAMBDA c : c # Comma)

\* the characters str.isspace() holds for, which str.strip() and int() trim:
\* White_Space and the separators U+001C to U+001F
PyWhitespace == Whitespace \cup (28..31)

RECURSIVE LStrip(_)
LStrip(t) == IF t # <<>> /\ t[1] \in PyWhitespace THEN LStrip(Tail(t)) ELSE t

RECURSIVE RStrip(_)
RStrip(t) ==
    IF t # <<>> /\ t[Len(t)] \in PyWhitespace THEN RStrip(SubSeq(t, 1, Len(t) - 1)) ELSE t

\* s.strip()
Strip(t) == RStrip(LStrip(t))

\* a run of decimal digits with single underscores between digits
DigitPart(t) ==
    /\ t # <<>> /\ IsDigit(t[1]) /\ IsDigit(t[Len(t)])
    /\ \A i \in 1..Len(t) : IsDigit(t[i]) \/ t[i] = 95
    /\ \A i \in 1..(Len(t) - 1) : ~(t[i] = 95 /\ t[i + 1] = 95)

\* the values of the digits of a digit part
DigitVals(t) ==
    LET ds == SelectSeq(t, LAMBDA c : c # 95) IN [i \in 1..Len(ds) |-> DigitVal(ds[i])]

RECURSIVE ValOf(_)
\* the number a short sequence of digit values stands for
ValOf(ds) == IF ds = <<>> THEN 0 ELSE 10 * ValOf(SubSeq(ds, 1, Len(ds) - 1)) + ds[Len(ds)]

\* a sequence of digit values without its leading zeros; <<>> stands for zero
Canon(ds) ==
    IF \A i \in 1..Len(ds) : ds[i] = 0 THEN <<>>
    ELSE SubSeq(ds, CHOOSE i \in 1..Len(ds) : ds[i] # 0 /\ \A j \in 1..(i - 1) : ds[j] = 0,
                Len(ds))

\* sys.get_int_max_str_digits(): int() raises ValueError for more digits
MaxStrDigits == 4300

NoInt == [ok |-> FALSE, neg |-> FALSE, digits |-> <<>>]

\* int(s) on a stripped text: an optional sign and a digit part of at most
\* MaxStrDigits digits, ValueError otherwise; the int is held as its sign and
\* its decimal digits
ParseInt(t) ==
    LET signed == t # <<>> /\ t[1] \in {43, 45}
        body == IF signed THEN Tail(t) ELSE t
    IN IF ~DigitPart(body) THEN NoInt
       ELSE LET ds == DigitVals(body)
            IN IF Len(ds) > MaxStrDigits THEN NoInt
               ELSE [ok |-> TRUE, neg |-> t[1] = 45 /\ Canon(ds) # <<>>,
                     digits |-> Canon(ds)]

Zeros(n) == [i \in 1..n |-> 0]

\* A natural number of any size is held as its decimal digits, the most
\* significant first, without leading zeros; <<>> is zero.

\* a < b
NatLess(a, b) ==
    \/ Len(a) < Len(b)
    \/ /\ Len(a) = Len(b)
       /\ \E i \in 1..Len(a) : a[i] < b[i] /\ \A j \in 1..(i - 1) : a[j] = b[j]

\* a + 1
AddOne(a) ==
    IF \A i \in 1..Len(a) : a[i] = 9 THEN <<1>> \o Zeros(Len(a))
    ELSE LET p == CHOOSE i \in 1..Len(a) : a[i] # 9 /\ \A j \in (i + 1)..Len(a) : a[j] = 9
         IN [i \in 1..Len(a) |-> IF i < p THEN a[i] ELSE IF i = p THEN a[i] + 1 ELSE 0]

\* the limbs of three digits of a number, the least significant first
Limbs3(ds) ==
    LET n == Len(ds)
        d(j) == IF j >= 1 THEN ds[j] ELSE 0
    IN [i \in 1..((n + 2) \div 3) |->
           d(n - 3 * i + 1) * 100 + d(n - 3 * i + 2) * 10 + d(n - 3 * i + 3)]

RECURSIVE SumProd(_, _, _, _, _)
\* the sum of x[i] * y[k + 1 - i] for i from lo to hi
SumProd(x, y, k, lo, hi) ==
    IF lo > hi THEN 0
    ELSE IF lo = hi THEN x[lo] * y[k + 1 - lo]
    ELSE SumProd(x, y, k, lo, (lo + hi) \div 2)
         + SumProd(x, y, k, (lo + hi) \div 2 + 1, hi)

\* the columns of the long multiplication of two limb sequences, not carried
Columns(x, y) ==
    [k \in 1..(Len(x) + Len(y) - 1) |->
        SumProd(x, y, k, IF k + 1 - Len(y) > 1 THEN k + 1 - Len(y) ELSE 1,
                IF k < Len(x) THEN k ELSE Len(x))]

At(c, k) == IF k >= 1 /\ k <= Len(c) THEN c[k] ELSE 0

\* the columns with each column's thousands moved to the columns above it
Spread(c) ==
    [k \in 1..(Len(c) + 3) |->
        (At(c, k) % 1000) + ((At(c, k - 1) \div 1000) % 1000)
        + ((At(c, k - 2) \div 1000000) % 1000) + (At(c, k - 3) \div 1000000000)]

\* once more, which leaves columns of at most 1001
SpreadAgain(c) == [k \in 1..(Len(c) + 1) |-> (At(c, k) % 1000) + (At(c, k - 1) \div 1000)]

\* the limbs of columns of at most 1001: a column takes a carry where a column
\* below it holds 1000 or more and the columns between them hold 999
Carried(c) ==
    [k \in 1..Len(c) |->
        (c[k] + (IF \E j \in 1..(k - 1) :
                       c[j] >= 1000 /\ \A l \in (j + 1)..(k - 1) : c[l] = 999
                 THEN 1 ELSE 0)) % 1000]

\* the digits of a number held as limbs
DigitsOf(x) ==
    Canon([j \in 1..(3 * Len(x)) |->
              (x[(3 * Len(x) - j) \div 3 + 1] \div (10 ^ ((3 * Len(x) - j) % 3))) % 10])

\* a * b
Mul(a, b) ==
    IF a = <<>> \/ b = <<>> THEN <<>>
    ELSE DigitsOf(Carried(SpreadAgain(Spread(Columns(Limbs3(a), Limbs3(b))))))

Square(a) == Mul(a, a)

RECURSIVE Pow(_, _)
\* b^n for a digit b
Pow(b, n) ==
    IF n = 0 THEN <<1>>
    ELSE Mul(Square(Pow(b, n \div 2)), IF n % 2 = 0 THEN <<1>> ELSE <<b>>)

\* A quotient that was rounded down is held with a flag for a lost remainder.

\* x * 10^n, rounded down
Shift10(x, n) ==
    IF n >= 0 THEN [q |-> IF x.q = <<>> THEN <<>> ELSE x.q \o Zeros(n), sticky |-> x.sticky]
    ELSE LET keep == IF Len(x.q) + n > 0 THEN Len(x.q) + n ELSE 0
         IN [q |-> SubSeq(x.q, 1, keep),
             sticky |-> x.sticky \/ \E i \in (keep + 1)..Len(x.q) : x.q[i] # 0]

\* x / 2, rounded down
Halve(x) == Shift10([q |-> Mul(x.q, <<5>>), sticky |-> x.sticky], 0 - 1)

\* the half h of a number, rounded to the nearest, a tie to the even neighbour;
\* sticky tells that the number itself was rounded down
HalfEvenOf(h, sticky) ==
    IF h.sticky /\ (sticky \/ (h.q # <<>> /\ h.q[Len(h.q)] % 2 = 1)) THEN AddOne(h.q)
    ELSE h.q

\* x / 2 rounded to the nearest, a tie to the even neighbour
HalfEven(x) == HalfEvenOf(Halve([q |-> x.q, sticky |-> FALSE]), x.sticky)

\* a / 10^k for k > 0, rounded to the nearest, a tie to the even neighbour
RoundDrop(a, k) ==
    LET n == Len(a)
        q == SubSeq(a, 1, IF n > k THEN n - k ELSE 0)
        first == IF k <= n THEN a[n - k + 1] ELSE 0
        rest == \E i \in (IF n - k + 2 > 1 THEN n - k + 2 ELSE 1)..n : a[i] # 0
    IN IF first > 5 \/ (first = 5 /\ (rest \/ (q # <<>> /\ q[Len(q)] % 2 = 1)))
       THEN AddOne(q) ELSE q

\* 2^53 and 2^54
TwoTo53 == <<9, 0, 0, 7, 1, 9, 9, 2, 5, 4, 7, 4, 0, 9, 9, 2>>
TwoTo54 == <<1, 8, 0, 1, 4, 3, 9, 8, 5, 0, 9, 4, 8, 1, 9, 8, 4>>

RECURSIVE Below2To54(_, _)
\* x at binary exponent s, halved until it is below 2^54
Below2To54(x, s) ==
    IF NatLess(x.q, TwoTo54) THEN [x |-> x, s |-> s]
    ELSE Below2To54(Halve(x), s + 1)

\* a binary exponent s, at least -1075, with 2^(s + 53) at most the numbers of
\* mag digits before the point (mag at most 0: the zeros after the point)
StartExp(mag) ==
    LET lg == IF mag >= 1 THEN ((mag - 1) * 33219) \div 10000
              ELSE 0 - (((1 - mag) * 33220 + 9999) \div 10000)
    IN IF lg - 53 < 0 - 1075 THEN 0 - 1075 ELSE lg - 53

\* D * 10^E / 2^s, rounded down
Quotient(D, E, s) ==
    Shift10([q |-> Mul(D, Pow(IF s > 0 THEN 5 ELSE 2, IF s > 0 THEN s ELSE 0 - s)),
             sticky |-> FALSE],
            E - (IF s > 0 THEN s ELSE 0))

\* the double m * 2^e, or inf where it is beyond the largest double
Packed(m, e) ==
    IF e > 971 \/ (e = 971 /\ m = TwoTo53) THEN [inf |-> TRUE, m |-> <<>>, e |-> 0]
    ELSE [inf |-> FALSE, m |-> m, e |-> e]

\* the quotient n.x at binary exponent n.s, rounded to 53 bits
Rounded(n) == Packed(HalfEven(n.x), n.s + 1)

\* the double nearest to D * 10^E, for digits D that are not zero, as m * 2^e
\* with m at most 2^53 and e at least -1074 (a tie goes to the even m); inf
\* tells that the value is beyond the largest double
NearestDouble(D, E) ==
    IF Len(D) + E > 310 THEN [inf |-> TRUE, m |-> <<>>, e |-> 0]
    ELSE IF Len(D) + E < 0 - 330 THEN [inf |-> FALSE, m |-> <<>>, e |-> 0]
    ELSE Rounded(Below2To54(Quotient(D, E, StartExp(Len(D) + E)), StartExp(Len(D) + E)))

\* a * 10^k, rounded to the nearest, a tie to the even neighbour
ScaleDigits(a, k) ==
    IF k >= 0 THEN (IF a = <<>> THEN <<>> ELSE a \o Zeros(k)) ELSE RoundDrop(a, 0 - k)

\* f"{x:.6f}" for the double x = m * 2^e: the decimal digits of x in millionths,
\* rounded to the nearest, a tie to the even neighbour
Millionths(m, e) ==
    ScaleDigits(Mul(m, Pow(IF e >= 0 THEN 2 ELSE 5, IF e >= 0 THEN e ELSE 0 - e)),
                IF e >= 0 THEN 6 ELSE 6 + e)

NoFloat == [kind |-> "fail", neg |-> FALSE, micro |-> <<>>]

\* the float 0.0
ZeroFloat == [kind |-> "num", neg |-> FALSE, micro |-> <<>>]

\* the double x with its sign as f"{price:.6f}" prints it
Printed(neg, x) ==
    IF x.inf THEN [kind |-> "inf", neg |-> neg, micro |-> <<>>]
    ELSE [kind |-> "num", neg |-> neg, micro |-> Millionths(x.m, x.e)]

\* the float of the digits w before and f after the point, times 10^e, as
\* f"{price:.6f}" prints it: its sign and its millionths, or inf
Scaled(neg, w, f, e) ==
    IF Canon(w \o f) = <<>> THEN [kind |-> "num", neg |-> neg, micro |-> <<>>]
    ELSE Printed(neg, NearestDouble(Canon(w \o f), e - Len(f)))

\* the exponent of a float text: an optional sign and a digit part of any
\* length; a value of more than nine digits is held as 10^9
ExpOf(t) ==
    LET signed == t # <<>> /\ t[1] \in {43, 45}
        body == IF signed THEN Tail(t) ELSE t
        ds == Canon(DigitVals(body))
        v == IF Len(ds) > 9 THEN 1000000000 ELSE ValOf(ds)
    IN IF ~DigitPart(body) THEN [ok |-> FALSE, val |-> 0]
       ELSE [ok |-> TRUE, val |-> IF t[1] = 45 THEN 0 - v ELSE v]

\* float(s) on a stripped text: "nan", "inf" or "infinity" in any case, or a
\* decimal number (digit parts around at most one point, at least one of them,
\* and an optional exponent), each with an optional sign; ValueError otherwise
ParseFloat(t) ==
    LET signed == t # <<>> /\ t[1] \in {43, 45}
        neg == t # <<>> /\ t[1] = 45
        body == IF signed THEN Tail(t) ELSE t
        low == [i \in 1..Len(body) |-> IF body[i] \in 65..90 THEN body[i] + 32 ELSE body[i]]
        eparts == Split(low, 101)
        exp == IF Len(eparts) = 2 THEN ExpOf(eparts[2]) ELSE [ok |-> TRUE, val |-> 0]
        parts == Split(eparts[1], 46)
        whole == parts[1]
        frac == IF Len(parts) > 1 THEN parts[2] ELSE <<>>
    IN IF low = <<110, 97, 110>> THEN [kind |-> "nan", neg |-> FALSE, micro |-> <<>>]
       ELSE IF low \in {<<105, 110, 102>>, <<105, 110, 102, 105, 110, 105, 116, 121>>}
       THEN [kind |-> "inf", neg |-> neg, micro |-> <<>>]
       ELSE IF \/ Len(eparts) > 2 \/ ~exp.ok
               \/ Len(parts) > 2
               \/ (whole # <<>> /\ ~DigitPart(whole))
               \/ (frac # <<>> /\ ~DigitPart(frac))
               \/ (whole = <<>> /\ frac = <<>>)
       THEN NoFloat
       ELSE Scaled(neg, DigitVals(whole), DigitVals(frac), exp.val)

NoRecord == [ok |-> FALSE, settlement_date |-> NoDate, cusip |-> <<>>, symbol |-> <<>>,
             quantity |-> <<>>, reference_price |-> NoFloat]

\* lines 365-372: price
PriceOf(parts) ==
    LET price_str == Strip(RemoveCommas(parts[6]))
        f == ParseFloat(price_str)
    IN IF price_str # <<>> /\ f.kind # "fail" THEN f ELSE ZeroFloat

\* a quantity check that lets zero pass
QtyAcceptedNonNegative(qty) == qty.ok /\ ~qty.neg

\* lines 355-360: the quantity parses and is positive
QtyAccepted(qty) == qty.ok /\ ~qty.neg /\ qty.digits # <<>>

\* lines 343-375: _try_parse_raw_line
TryParseRawLine(line) ==
    IF line = <<>> \/ \A i \in 1..Len(line) : line[i] # Pipe THEN NoRecord
    ELSE LET parts == Split(line, Pipe)
         IN IF Len(parts) < 6 THEN NoRecord
            ELSE LET d == Strptime(Strip(parts[1]))
                     qty == ParseInt(Strip(RemoveCommas(parts[4])))
                     symbol == Strip(parts[3])
                 IN IF d = NoDate THEN NoRecord
                    ELSE IF ~QtyAccepted(qty) THEN NoRecord
                    ELSE IF symbol = <<>> THEN NoRecord
                    ELSE [ok |-> TRUE, settlement_date |-> d, cusip |-> Strip(parts[2]),
                          symbol |-> symbol, quantity |-> qty.digits,
                          reference_price |-> PriceOf(parts)]

\* sub in t
Contains(t, sub) ==
    \E i \in 1..(Len(t) - Len(sub) + 1) : SubSeq(t, i, i + Len(sub) - 1) = sub

\* t.find(c): the first index of c, counted from 1, or 0
Find(t, c) ==
    IF \A i \in 1..Len(t) : t[i] # c THEN 0
    ELSE CHOOSE i \in 1..Len(t) : t[i] = c /\ \A j \in 1..(i - 1) : t[j] # c

RECURSIVE CleanTicker(_)
\* lines 396-401: letters and digits in upper case, . / - _ as a point
CleanTicker(t) ==
    IF t = <<>> THEN <<>>
    ELSE (IF IsAlnum(t[1]) THEN UpperChar(t[1])
          ELSE IF t[1] \in {46, 47, 45, 95} THEN <<46>>
          ELSE <<>>) \o CleanTicker(Tail(t))

RECURSIVE StripPoints(_)
\* .strip(".")
StripPoints(t) ==
    IF t = <<>> THEN t
    ELSE IF t[1] = 46 THEN StripPoints(Tail(t))
    ELSE IF t[Len(t)] = 46 THEN StripPoints(SubSeq(t, 1, Len(t) - 1))
    ELSE t

\* lines 380-389: the text before the first "-", else before the first "_", of a
\* ticker that holds "defunct"
CutDefunct(t) ==
    IF ~Contains(LowerText(t), <<100, 101, 102, 117, 110, 99, 116>>) THEN t
    ELSE IF Find(t, 45) # 0 THEN SubSeq(t, 1, Find(t, 45) - 1)
    ELSE IF Find(t, 95) # 0 THEN SubSeq(t, 1, Find(t, 95) - 1)
    ELSE t

\* lines 377-402: _normalize_ticker
NormalizeTicker(t) ==
    IF t = <<>> THEN <<>>
    ELSE StripPoints(CleanTicker(Strip(CutDefunct(t))))

\* probe fields: the text of the field and, written by hand, what it stands for
DateFields ==
    {[text |-> <<50, 48, 50, 52, 48, 49, 49, 53>>, val |-> <<2024, 1, 15>>],
     [text |-> <<32, 50, 48, 50, 52, 48, 50, 50, 57, 32>>, val |-> <<2024, 2, 29>>],
     [text |-> <<31, 65298, 65296, 65298, 65300, 48, 49, 49, 1637, 160>>, val |-> <<2024, 1, 15>>],
     [text |-> <<50, 48, 50, 51, 48, 50, 50, 57>>, val |-> NoDate],
     [text |-> <<50, 48, 50, 52, 45, 48, 49, 45, 49, 53>>, val |-> NoDate],
     [text |-> <<>>, val |-> NoDate]}

\* val: the int of the text, as its sign and its digits, where it is one
QtyFields ==
    {[text |-> <<53>>, val |-> [ok |-> TRUE, neg |-> FALSE, digits |-> <<5>>]],
     [text |-> <<32, 49, 44, 48, 48, 48>>,
      val |-> [ok |-> TRUE, neg |-> FALSE, digits |-> <<1, 0, 0, 0>>]],
     [text |-> <<48>>, val |-> [ok |-> TRUE, neg |-> FALSE, digits |-> <<>>]],
     [text |-> <<45, 51>>, val |-> [ok |-> TRUE, neg |-> TRUE, digits |-> <<3>>]],
     [text |-> <<1633, 95, 48>>, val |-> [ok |-> TRUE, neg |-> FALSE, digits |-> <<1, 0>>]],
     [text |-> <<49, 46, 53>>, val |-> NoInt],
     [text |-> <<>>, val |-> NoInt]}

\* quantities at the limit of int(): MaxStrDigits nines, and one nine more
LongQtyFields ==
    {[text |-> [i \in 1..MaxStrDigits |-> 57],
      val |-> [ok |-> TRUE, neg |-> FALSE, digits |-> [i \in 1..MaxStrDigits |-> 9]]],
     [text |-> [i \in 1..(MaxStrDigits + 1) |-> 57], val |-> NoInt]}

\* ticker: the normalised ticker of the symbol ("é" gives "É", "ß" gives "SS",
\* "a²ﬁ" gives "A²FI")
SymbolFields ==
    {[text |-> <<65, 66>>, symbol |-> <<65, 66>>, ticker |-> <<65, 66>>],
     [text |-> <<32, 97, 47, 98, 32>>, symbol |-> <<97, 47, 98>>, ticker |-> <<65, 46, 66>>],
     [text |-> <<88, 45, 100, 101, 102, 117, 110, 99, 116>>, symbol |-> <<88, 45, 100, 101, 102, 117, 110, 99, 116>>, ticker |-> <<88>>],
     [text |-> <<233>>, symbol |-> <<233>>, ticker |-> <<201>>],
     [text |-> <<223>>, symbol |-> <<223>>, ticker |-> <<83, 83>>],
     [text |-> <<97, 178, 64257>>, symbol |-> <<97, 178, 64257>>, ticker |-> <<65, 178, 70, 73>>],
     [text |-> <<46, 46>>, symbol |-> <<46, 46>>, ticker |-> <<>>],
     [text |-> <<32, 32>>, symbol |-> <<>>, ticker |-> <<>>]}

\* val: the float of the text as f"{price:.6f}" prints it, 0.0 where the text
\* is empty or no float: "1.5", "1,234.25 ", "125e-2", ".", "n/a", "",
\* "1.00000049999999999999999" (the nearest double prints as 1.000001),
\* "1.00000150000000000000001" (prints as 1.000001), "1e400" (inf), "-0"
PriceFields ==
    {[text |-> <<49, 46, 53>>, parsed |-> TRUE,
      val |-> [kind |-> "num", neg |-> FALSE, micro |-> <<1, 5, 0, 0, 0, 0, 0>>]],
     [text |-> <<49, 44, 50, 51, 52, 46, 50, 53, 32>>, parsed |-> TRUE,
      val |-> [kind |-> "num", neg |-> FALSE, micro |-> <<1, 2, 3, 4, 2, 5, 0, 0, 0, 0>>]],
     [text |-> <<49, 50, 53, 101, 45, 50>>, parsed |-> TRUE,
      val |-> [kind |-> "num", neg |-> FALSE, micro |-> <<1, 2, 5, 0, 0, 0, 0>>]],
     [text |-> <<46>>, parsed |-> FALSE, val |-> ZeroFloat],
     [text |-> <<110, 47, 97>>, parsed |-> FALSE, val |-> ZeroFloat],
     [text |-> <<>>, parsed |-> FALSE, val |-> ZeroFloat],
     [text |-> <<49, 46, 48, 48, 48, 48, 48, 48, 52, 57, 57, 57, 57, 57, 57, 57, 57, 57, 57,
                 57, 57, 57, 57, 57, 57>>, parsed |-> TRUE,
      val |-> [kind |-> "num", neg |-> FALSE, micro |-> <<1, 0, 0, 0, 0, 0, 1>>]],
     [text |-> <<49, 46, 48, 48, 48, 48, 48, 49, 53, 48, 48, 48, 48, 48, 48, 48, 48, 48, 48,
                 48, 48, 48, 48, 48, 49>>, parsed |-> TRUE,
      val |-> [kind |-> "num", neg |-> FALSE, micro |-> <<1, 0, 0, 0, 0, 0, 1>>]],
     [text |-> <<49, 101, 52, 48, 48>>, parsed |-> TRUE,
      val |-> [kind |-> "inf", neg |-> FALSE, micro |-> <<>>]],
     [text |-> <<45, 48>>, parsed |-> TRUE,
      val |-> [kind |-> "num", neg |-> TRUE, micro |-> <<>>]]}

\* how many fields the line has: without the price, all six, one more
FieldCounts == {5, 6, 7}

\* str.upper()
UpperText(t) == JoinTexts([i \in 1..Len(t) |-> UpperChar(t[i])])

\* self.allowed_tickers is None
NoFilter == [filter |-> FALSE, tickers |-> {}]

\* lines 134-145: _load_tickers_from_map_files on the entries of the folder;
\* csv tells that the entry is a file with the suffix .csv in any case
LoadTickers(entries) ==
    {UpperText(Strip(e.stem)) : e \in {x \in entries : x.csv /\ Strip(x.stem) # <<>>}}

\* lines 82-92: allowed_tickers for map_file_dir; dir tells that it is given
\* and a folder
AllowedTickers(map) ==
    IF map.dir /\ LoadTickers(map.entries) # {}
    THEN [filter |-> TRUE, tickers |-> LoadTickers(map.entries)]
    ELSE NoFilter

\* map_file_dir, with the tickers it allows (filter FALSE: all): no folder; a
\* folder with ab.txt; a folder with aapl.csv (AAPL); a folder with " ab .csv",
\* "a.b.CSV", the letter e with acute accent ".csv" and " .csv" (AB, A.B and
\* the capital letter E with acute accent)
MapDirs ==
    {[dir |-> FALSE, entries |-> {}, allowed |-> [filter |-> FALSE, tickers |-> {}]],
     [dir |-> TRUE, entries |-> {[stem |-> <<97, 98>>, csv |-> FALSE]}, allowed |-> [filter |-> FALSE, tickers |-> {}]],
     [dir |-> TRUE, entries |-> {[stem |-> <<97, 97, 112, 108>>, csv |-> TRUE]},
      allowed |-> [filter |-> TRUE, tickers |-> {<<65, 65, 80, 76>>}]],
     [dir |-> TRUE,
      entries |-> {[stem |-> <<32, 97, 98, 32>>, csv |-> TRUE],
                   [stem |-> <<97, 46, 98>>, csv |-> TRUE],
                   [stem |-> <<233>>, csv |-> TRUE],
                   [stem |-> <<32>>, csv |-> TRUE]},
      allowed |-> [filter |-> TRUE, tickers |-> {<<65, 66>>, <<65, 46, 66>>, <<201>>}]]}

\* the raw line of the chosen fields: date|cusip|symbol|quantity|description|price
RawLine(f) ==
    Join(SubSeq(<<f.date.text, <<67, 49>>, f.symbol.text, f.qty.text, <<68>>,
                  f.price.text, <<120>>>>, 1, f.n), Pipe)

\* every choice of the short fields, and the long quantities in a line whose
\* other fields are good
ProbeFields ==
    [date : DateFields, qty : QtyFields, symbol : SymbolFields,
     price : PriceFields, n : FieldCounts]
    \cup [date : {d \in DateFields : d.val # NoDate}, qty : LongQtyFields,
          symbol : {y \in SymbolFields : y.ticker = <<65, 66>>},
          price : {x \in PriceFields : x.text = <<49, 46, 53>>}, n : FieldCounts]

InitParse ==
    /\ prog = "parse"
    /\ \E f \in ProbeFields, map \in MapDirs :
          rp = [f |-> f, map |-> map, allowed_tickers |-> AllowedTickers(map),
                line |-> RawLine(f), rec |-> NoRecord, ticker |-> <<>>,
                written |-> FALSE, done |-> FALSE]
    /\ MergeOff /\ ConvertOff /\ NormalizeOff /\ ExtractOff /\ SampleOff
    /\ PeriodOff /\ DownloadOff /\ WritersOff /\ SortProbeOff
    /\ AggregateOff /\ ProcDateOff /\ MasterOff

\* lines 302-303: the ticker passes the filter
Allowed(allowed_tickers, ticker) ==
    ~allowed_tickers.filter \/ ticker \in allowed_tickers.tickers

\* lines 294-303: one line of the archive member
ParseApply ==
    /\ prog = "parse"
    /\ ~rp.done
    /\ LET rec == TryParseRawLine(rp.line)
           ticker == IF rec.ok THEN NormalizeTicker(rec.symbol) ELSE <<>>
       IN rp' = [rp EXCEPT !.rec = rec, !.ticker = ticker,
                           !.written = rec.ok /\ ticker # <<>>
                                       /\ Allowed(rp.allowed_tickers, ticker),
                           !.done = TRUE]
    /\ UNCHANGED <<prog, notParse>>

NextParse == ParseApply

SpecParse == InitParse /\ [][NextParse]_vars

\* one of the reasons the claim names for dropping the line
MustDrop(f) ==
    \/ f.n < 6
    \/ f.date.val = NoDate
    \/ ~f.qty.val.ok
    \/ f.qty.val.neg \/ f.qty.val.digits = <<>>
    \/ f.symbol.symbol = <<>>

\* C21: a record that is returned and written has the date of its first field,
\* a positive integer quantity, a symbol with a non-empty ticker, and the price
\* of its sixth field, or 0 where that is empty or no number; a line with fewer
\* than 6 fields, no date, no positive integer quantity or no symbol is dropped.
\* Every other line with a ticker is written where the map files allow the
\* ticker or name no ticker at all.
C21_RecordValidity ==
    rp.done =>
        /\ MustDrop(rp.f) => ~rp.rec.ok /\ ~rp.written
        /\ rp.written =>
              /\ rp.rec.ok
              /\ rp.rec.settlement_date = rp.f.date.val /\ rp.f.date.val # NoDate
              /\ rp.rec.quantity = rp.f.qty.val.digits /\ rp.rec.quantity # <<>>
              /\ ~rp.f.qty.val.neg
              /\ rp.rec.symbol = rp.f.symbol.symbol /\ rp.rec.symbol # <<>>
              /\ rp.ticker = rp.f.symbol.ticker /\ rp.ticker # <<>>
              /\ rp.rec.reference_price = rp.f.price.val
        /\ (~MustDrop(rp.f) /\ rp.f.symbol.ticker # <<>>) =>
              (rp.written <=> (~rp.map.allowed.filter
                               \/ rp.f.symbol.ticker \in rp.map.allowed.tickers))

\* "20240115|C1| a/b | 1,000|D|." is written with ticker A.B, quantity 1000, price 0
C21_Witness ==
    /\ rp.done
    /\ rp.written
    /\ rp.allowed_tickers.filter
    /\ rp.ticker = <<65, 46, 66>>
    /\ rp.rec.quantity = <<1, 0, 0, 0>>
    /\ ~rp.f.price.parsed
    /\ rp.rec.reference_price = ZeroFloat

-----------------------------------------------------------------------------
(* period_parition.py: the aggregation per period and the totals series.   *)

MaxStore == 3

\* the records of mc.csv: date, qty and price (price in whole units)
StoreDates == {Date(2009, 6, 30), Date(2009, 7, 1), Date(2009, 7, 20), Date(2009, 12, 31)}

StoreRecords ==
    {[date |-> dt, qty |-> q[1], price |-> q[2]] :
        dt \in StoreDates, q \in {<<1, 2>>, <<2, 3>>, <<5, 0>>}}

Stores == UNION {[1..n -> StoreRecords] : n \in 0..MaxStore}

\* a weight that leaves the price out
WeightQtyOnly(r) == r.qty

\* line 20: weight
Weight(r) == r.qty * r.price

\* lines 75: the group key of a record
GroupKey(r) == PeriodRow(r.date)

RECURSIVE SumOver(_, _, _)
\* .sum() of a column over the records of the store that are in the group
SumOver(store, key, col) ==
    IF store = <<>> THEN 0
    ELSE (IF GroupKey(store[1]) = key
           THEN (CASE col = "rows" -> 1
                   [] col = "qty" -> store[1].qty
                   [] col = "price" -> store[1].price
                   [] col = "weight" -> Weight(store[1]))
           ELSE 0) + SumOver(Tail(store), key, col)

\* lines 74-81: one row of the aggregate; mean_price is kept as sum and count
GroupRow(store, key) ==
    [scheme |-> key.scheme, period |-> key.period, period_start |-> key.period_start,
     period_end |-> key.period_end, release_date_est |-> key.release_date_est,
     rows |-> SumOver(store, key, "rows"), sum_qty |-> SumOver(store, key, "qty"),
     mean_price |-> <<SumOver(store, key, "price"), SumOver(store, key, "rows")>>,
     sum_weight |-> SumOver(store, key, "weight")]

RECURSIVE SortedByStart(_)
\* .sort("period_start"): the orders that are ascending in period_start
SortedByStart(S) ==
    IF S = {} THEN {<<>>}
    ELSE LET mins == {x \in S : \A y \in S : ~DateLess(y.period_start, x.period_start)}
         IN UNION {{<<x>> \o t : t \in SortedByStart(S \ {x})} : x \in mins}

\* lines 74-83: full
Full(store) ==
    SortedByStart({GroupRow(store, GroupKey(store[i])) : i \in 1..Len(store)})

\* line 87: full.select([...])
SelectTotals(full) ==
    [i \in 1..Len(full) |->
        [period |-> full[i].period, period_start |-> full[i].period_start,
         period_end |-> full[i].period_end, sum_weight |-> full[i].sum_weight]]

\* line 87: totals, the selected columns sorted by period_start once more: the
\* orders of the rows that are ascending in period_start
Totals(full) ==
    LET sel == SelectTotals(full)
    IN {[i \in 1..Len(sel) |-> sel[p[i]]] :
           p \in {q \in Perms(1..Len(sel)) :
                     \A i, j \in 1..Len(sel) :
                         i < j => ~DateLess(sel[q[j]].period_start, sel[q[i]].period_start)}}

InitAggregate ==
    /\ prog = "aggregate"
    /\ \E st \in Stores : ag = [store |-> st, full |-> <<>>, totals |-> <<>>, done |-> FALSE]
    /\ MergeOff /\ ConvertOff /\ NormalizeOff /\ ExtractOff /\ SampleOff
    /\ PeriodOff /\ DownloadOff /\ WritersOff /\ SortProbeOff
    /\ ParseOff /\ ProcDateOff /\ MasterOff

\* lines 73-88
AggregateApply ==
    /\ prog = "aggregate"
    /\ ~ag.done
    /\ \E full \in Full(ag.store) :
          \E totals \in Totals(full) :
              ag' = [ag EXCEPT !.full = full, !.totals = totals, !.done = TRUE]
    /\ UNCHANGED <<prog, notAggregate>>

NextAggregate == AggregateApply

SpecAggregate == InitAggregate /\ [][NextAggregate]_vars

\* the records of the store whose period is p
InPeriod(p) == {i \in 1..Len(ag.store) : Period(ag.store[i].date) = p}

RECURSIVE SetSum(_, _)
SetSum(I, f) ==
    IF I = {} THEN 0
    ELSE LET i == CHOOSE i \in I : TRUE IN f[i] + SetSum(I \ {i}, f)

\* C22: every period of the store has one row in the full output and one in the
\* totals; the row counts the period's records and sums their quantities and
\* quantity x price; both outputs ascend in period_start and carry the same
\* sum_weight.
C22_PerPeriodAggregation ==
    ag.done =>
        LET periods == {Period(ag.store[i].date) : i \in 1..Len(ag.store)}
        IN /\ Len(ag.full) = Cardinality(periods) /\ Len(ag.totals) = Cardinality(periods)
           /\ \A p \in periods : \E i \in 1..Len(ag.full) :
                 /\ ag.full[i].period = p
                 /\ ag.full[i].rows = Cardinality(InPeriod(p))
                 /\ ag.full[i].sum_qty =
                       SetSum(InPeriod(p), [k \in 1..Len(ag.store) |-> ag.store[k].qty])
                 /\ ag.full[i].sum_weight =
                       SetSum(InPeriod(p), [k \in 1..Len(ag.store) |->
                                               ag.store[k].qty * ag.store[k].price])
                 /\ ag.totals[i].period = p
                 /\ ag.totals[i].sum_weight = ag.full[i].sum_weight
           /\ \A i \in 1..(Len(ag.full) - 1) :
                 /\ DateLess(ag.full[i].period_start, ag.full[i + 1].period_start)
                 /\ DateLess(ag.totals[i].period_start, ag.totals[i + 1].period_start)

\* two records of 2009-07-H2 and one of 2009-06: two rows, the second with rows 2
C22_Witness ==
    /\ ag.done
    /\ Len(ag.store) = 3
    /\ Len(ag.full) = 2
    /\ ag.full[1].period_start = Date(2009, 6, 1)
    /\ ag.full[2].period_start = Date(2009, 7, 16)
    /\ ag.full[2].rows = 2
    /\ ag.full[2].sum_weight = 8

-----------------------------------------------------------------------------
(* Further claims about _save_content_to_file.                             *)

\* the call _save_content_to_file(dest, batch) starts in this step
CallStarts(dest, batch) ==
    /\ mw.pc \in {"idle", "done"}
    /\ \/ mw'.pc = "done" /\ last' = <<dest, batch>>
       \/ mw'.pc = "writing" /\ mw'.dest = dest /\ mw'.batch = batch

\* nothing to store: no line in the batch, or only empty lines in the batch and
\* in the destination
NothingToStore(dest, batch) ==
    \/ batch = <<>>
    \/ /\ \A i \in 1..Len(batch) : batch[i] = <<>>
       /\ files[dest].exists => \A i \in 1..Len(files[dest].lines) : files[dest].lines[i] = <<>>

\* C23: a call whose batch is empty, or whose union with the stored lines is
\* empty, returns at once: no destination is created or rewritten and no
\* temporary file is opened or left.
C23_EmptyMergeNoOp ==
    [][\A dest \in Dests, batch \in Batches :
          (CallStarts(dest, batch) /\ NothingToStore(dest, batch)) =>
              /\ files' = files
              /\ strayTmp' = strayTmp
              /\ mw'.pc = "done" /\ mw'.tmp = <<>>]_vars

\* a call with two empty lines for an absent destination has returned, and
\* the destination is still absent
C23_Witness ==
    /\ mw.pc = "done"
    /\ last = <<mw.dest, <<LineE, LineE>> >>
    /\ ~mw.before.exists
    /\ ~files[mw.dest].exists

\* the containing directory of a path
Parent(path) == SubSeq(path, 1, Len(path) - 1)

\* C24: while a call writes, its temporary file lies in the directory that
\* contains the destination file, for per-entity and for universe destinations.
C24_TempFileLocation ==
    mw.pc = "writing" => Parent(mw.tmpName) = Parent(FinalPath(mw.dest))

\* the non-empty lines a file holds
StoredSet(f) ==
    IF f.exists
    THEN LET text == FileText(f.lines)
         IN {SubSeq(text, r[1], r[2]) : r \in LineRuns(text)}
    ELSE {}

\* C25: no step takes a stored line out of a destination, and after a call
\* the destination holds the lines it held before the call together with the
\* non-empty lines of the batch, and no other line.
C25_MergeKeepsStoredData ==
    [][/\ \A d \in Dests : StoredSet(files[d]) \subseteq StoredSet(files'[d])
       /\ (mw'.pc = "done" /\ last' # NoCall) =>
             /\ last'[1] = mw'.dest
             /\ StoredSet(mw'.before) \subseteq StoredSet(files'[mw'.dest])
             /\ StoredSet(files'[mw'.dest]) =
                   StoredSet(mw'.before) \cup (Range(last'[2]) \ {<<>>})]_vars

-----------------------------------------------------------------------------
(* Further claims about run().                                             *)

\* C26: a distribution whose universe file existed when a run started is not
\* downloaded by that run, and after a run in which no download and no
\* processing failed every listed distribution that is due is marked as
\* processed.
C26_ProcessedEventuallySkipped ==
    /\ sr.pc \in {"loop", "returned"} => sr.doneAtStart \cap sr.attempted = {}
    /\ (sr.pc = "returned" /\ sr.failed = {}) =>
          \A d \in sr.listed : d <= sr.today => AlreadyProcessed(files, d)

-----------------------------------------------------------------------------
(* Further claims about extract_new_zips.                                  *)

\* C27: the list extract_new_zips returns is the list of the zips this
\* invocation saved, in the order saved: empty when it saved none or when the
\* last-run file does not hold this invocation's list, and never the list of an
\* earlier invocation.
C27_ReportsOnlyThisRun ==
    (prog = "extract" /\ sp.pc = "returned") =>
        \/ sp.result = [i \in 1..Len(sp.savedUrls) |-> ZipFilename(sp.savedUrls[i])]
        \/ sp.result = <<>> /\ lastRunFile # LastRun(sp.savedUrls)

-----------------------------------------------------------------------------
(* sample.process.py: _get_processing_date                                 *)

NumYears == 2

\* the years of the probe: a century year without a leap day, one with,
\* NumYears years around a leap year, and the first and last year of dt.date
\* with the years next to them
CatalogYears == {0, 1, 1900, 2000, 9999} \cup (2023..(2022 + NumYears))

\* (year, month, half) as _try_parse_distribution_file_name returns them: the
\* month is any number of two digits
Triples == {<<y, m, h>> : y \in CatalogYears, m \in 0..13, h \in {"a", "b"}}

\* dt.date(year, month, 1) takes the triple
CalendarMonth(year, month) == year \in 1..9999 /\ month \in 1..12

\* dt.date raised ValueError: no date
DateRaises == Date(0, 0, 0)

\* a next month that stays in the year
FollowingMonthSameYear(year, month) ==
    IF month = 12 THEN Date(year, 1, 1) ELSE Date(year, month + 1, 1)

\* lines 257-260 and 262-265: next_month
FollowingMonth(year, month) ==
    IF month = 12 THEN Date(year + 1, 1, 1) ELSE Date(year, month + 1, 1)

\* line 261: date - timedelta(days=1)
MinusOneDay(dt) ==
    IF dt.d > 1 THEN Date(dt.y, dt.m, dt.d - 1)
    ELSE IF dt.m > 1 THEN Date(dt.y, dt.m - 1, DaysInMonth(dt.y, dt.m - 1))
    ELSE Date(dt.y - 1, 12, 31)

\* lines 254-266: dt.date raises for a year outside 1..9999 and a month outside
\* 1..12 (line 255) and for the year after 9999 (lines 258, 263)
GetProcessingDate(year, month, half) ==
    IF ~CalendarMonth(year, month) THEN DateRaises
    ELSE LET next_month == FollowingMonth(year, month)
         IN IF next_month.y > 9999 THEN DateRaises
            ELSE IF half \in {"a", "A"} THEN MinusOneDay(next_month)
            ELSE Date(next_month.y, next_month.m, 15)

\* process_date.strftime("%Y%m%d") + ".csv", read as a number: the year is
\* printed without leading zeros, the month and the day with two digits
MarkerName(dt) == dt.y * 10000 + dt.m * 100 + dt.d

InitProcDate ==
    /\ prog = "procdate"
    /\ \E t1 \in Triples, t2 \in Triples :
          gd = [t1 |-> t1, t2 |-> t2, d1 |-> NullDate, d2 |-> NullDate, raised |-> FALSE,
                done |-> FALSE]
    /\ MergeOff /\ ConvertOff /\ NormalizeOff /\ ExtractOff /\ SampleOff
    /\ PeriodOff /\ DownloadOff /\ WritersOff /\ SortProbeOff
    /\ ParseOff /\ AggregateOff /\ MasterOff

\* lines 153-172 for the process dates d1 and d2 of the two links: the
\* ValueError of one of them leaves _get_distribution_metadata, and no
\* distribution is returned
Distributions(d1, d2) ==
    IF d1 = DateRaises \/ d2 = DateRaises
    THEN [gd EXCEPT !.raised = TRUE, !.done = TRUE]
    ELSE [gd EXCEPT !.d1 = d1, !.d2 = d2, !.done = TRUE]

\* lines 153-172: _get_distribution_metadata on a catalog of two links
ProcDateApply ==
    /\ prog = "procdate"
    /\ ~gd.done
    /\ gd' = Distributions(GetProcessingDate(gd.t1[1], gd.t1[2], gd.t1[3]),
                           GetProcessingDate(gd.t2[1], gd.t2[2], gd.t2[3]))
    /\ UNCHANGED <<prog, notProcDate>>

NextProcDate == ProcDateApply

SpecProcDate == InitProcDate /\ [][NextProcDate]_vars

\* the days of the months, written out
MonthLengths(y) ==
    <<31, IF y % 400 = 0 \/ (y % 4 = 0 /\ y % 100 # 0) THEN 29 ELSE 28,
      31, 30, 31, 30, 31, 31, 30, 31, 30, 31>>

\* the triple gets a date
HasDate(t) == CalendarMonth(t[1], t[2]) /\ ~(t[1] = 9999 /\ t[2] = 12)

\* the process date the claim gives a triple
ClaimedDate(t) ==
    IF t[3] = "a" THEN Date(t[1], t[2], MonthLengths(t[1])[t[2]])
    ELSE IF t[2] = 12 THEN Date(t[1] + 1, 1, 15)
    ELSE Date(t[1], t[2] + 1, 15)

\* C28: half 'a' gets the last day of the month and half 'b' the 15th of the
\* following month, and two different triples get different process dates
\* and different universe file names (stated for the catalogs whose triples
\* all get a date: for the others the discovery raises and no distribution
\* comes to be).
C28_ProcessDatesUnique ==
    gd.done =>
        /\ gd.raised <=> ~(HasDate(gd.t1) /\ HasDate(gd.t2))
        /\ ~gd.raised =>
              /\ gd.d1 = ClaimedDate(gd.t1)
              /\ gd.d2 = ClaimedDate(gd.t2)
              /\ gd.t1 # gd.t2 =>
                    (gd.d1 # gd.d2 /\ MarkerName(gd.d1) # MarkerName(gd.d2))

\* February of a leap year, first half, and December, second half
C28_Witness ==
    /\ gd.done /\ ~gd.raised
    /\ gd.t1 = <<2024, 2, "a">> /\ gd.d1 = Date(2024, 2, 29)
    /\ gd.t2 = <<2024, 12, "b">> /\ gd.d2 = Date(2025, 1, 15)

-----------------------------------------------------------------------------
(* master.py: build_master                                                 *)

MaxCsvFiles == 2
MaxCsvRows == 2

\* the characters '"', "\n" and "\r"
Quote == 34
LF == 10
CR == 13

\* the parser's mark for the end of a line (_csv.c)
EOL == 0 - 2

\* csv.field_size_limit(): the most characters of a field
FieldLimit == 131072

\* lines 5-12: "SETTLEMENT DATE", "CUSIP", "SYMBOL", "QUANTITY (FAILS)",
\* "DESCRIPTION", "PRICE"
HEADERS ==
    << <<83, 69, 84, 84, 76, 69, 77, 69, 78, 84, 32, 68, 65, 84, 69>>,
       <<67, 85, 83, 73, 80>>,
       <<83, 89, 77, 66, 79, 76>>,
       <<81, 85, 65, 78, 84, 73, 84, 89, 32, 40, 70, 65, 73, 76, 83, 41>>,
       <<68, 69, 83, 67, 82, 73, 80, 84, 73, 79, 78>>,
       <<80, 82, 73, 67, 69>> >>

\* the reader at the start of a file: no row yet, at the start of a record
NoParse ==
    [state |-> "START_RECORD", field |-> <<>>, fields |-> <<>>, rows |-> <<>>,
     raised |-> FALSE]

\* parse_add_char: a character past the field limit raises csv.Error
AddChar(p, c, state) ==
    IF Len(p.field) >= FieldLimit THEN [p EXCEPT !.raised = TRUE]
    ELSE [p EXCEPT !.field = Append(@, c), !.state = state]

\* parse_save_field
SaveField(p, state) ==
    [p EXCEPT !.fields = Append(@, p.field), !.field = <<>>, !.state = state]

\* the state after the end of a field at the character c
AfterField(c) == IF c = EOL THEN "START_RECORD" ELSE "EAT_CRNL"

\* parse_process_char for the excel dialect: delimiter ",", quotechar '"',
\* doublequote, no escapechar, no skipinitialspace, not strict
ProcessChar(p, c) ==
    LET nl == c \in {LF, CR}
        state == IF p.state = "START_RECORD" /\ c # EOL /\ ~nl THEN "START_FIELD"
                 ELSE p.state
    IN IF p.raised THEN p
       ELSE IF state = "START_RECORD"
            THEN (IF c = EOL THEN p ELSE [p EXCEPT !.state = "EAT_CRNL"])
       ELSE IF state = "START_FIELD"
            THEN (IF nl \/ c = EOL THEN SaveField(p, AfterField(c))
                  ELSE IF c = Quote THEN [p EXCEPT !.state = "IN_QUOTED_FIELD"]
                  ELSE IF c = Comma THEN SaveField(p, "START_FIELD")
                  ELSE AddChar(p, c, "IN_FIELD"))
       ELSE IF state = "IN_FIELD"
            THEN (IF nl \/ c = EOL THEN SaveField(p, AfterField(c))
                  ELSE IF c = Comma THEN SaveField(p, "START_FIELD")
                  ELSE AddChar(p, c, "IN_FIELD"))
       ELSE IF state = "IN_QUOTED_FIELD"
            THEN (IF c = EOL THEN p
                  ELSE IF c = Quote THEN [p EXCEPT !.state = "QUOTE_IN_QUOTED_FIELD"]
                  ELSE AddChar(p, c, "IN_QUOTED_FIELD"))
       ELSE IF state = "QUOTE_IN_QUOTED_FIELD"
            THEN (IF c = Quote THEN AddChar(p, c, "IN_QUOTED_FIELD")
                  ELSE IF c = Comma THEN SaveField(p, "START_FIELD")
                  ELSE IF nl \/ c = EOL THEN SaveField(p, AfterField(c))
                  ELSE AddChar(p, c, "IN_FIELD"))
       ELSE \* EAT_CRNL
            IF nl THEN p
            ELSE IF c = EOL THEN [p EXCEPT !.state = "START_RECORD"]
            ELSE [p EXCEPT !.raised = TRUE]

\* Reader_iternext: a record ends with the line that leaves the parser at the
\* start of a record, and the row is its fields
EndRecord(q) ==
    IF ~q.raised /\ q.state = "START_RECORD"
    THEN [q EXCEPT !.rows = Append(@, q.fields), !.fields = <<>>]
    ELSE q

\* line 30, newline="": a line of the file ends after "\n", after "\r\n",
\* after a "\r" that no "\n" follows, and at the end of the file
LineEndsAt(t, i) ==
    t[i] = LF \/ (t[i] = CR /\ (i = Len(t) \/ t[i + 1] # LF)) \/ i = Len(t)

\* the reader after the character i of the file and, where a line ends there,
\* after the end of the line
StepAt(t, i, p) ==
    IF LineEndsAt(t, i) THEN EndRecord(ProcessChar(ProcessChar(p, t[i]), EOL))
    ELSE ProcessChar(p, t[i])

RECURSIVE ParseChars(_, _, _, _)
\* the reader after the characters lo..hi of the file
ParseChars(t, lo, hi, p) ==
    IF lo > hi THEN p
    ELSE IF lo = hi THEN StepAt(t, lo, p)
    ELSE LET left == ParseChars(t, lo, (lo + hi) \div 2, p)
         IN IF left.raised THEN left
            ELSE ParseChars(t, ((lo + hi) \div 2) + 1, hi, left)

\* Reader_iternext at the end of the file: an unfinished field or an open
\* quote gives a last row
EndOfInput(p) ==
    IF ~p.raised /\ (p.field # <<>> \/ p.state = "IN_QUOTED_FIELD")
    THEN [p EXCEPT !.rows = Append(@, Append(p.fields, p.field))]
    ELSE p

\* line 31: the rows csv.reader gives for the text of a file, and whether it
\* raised csv.Error after them
CsvReader(t) == EndOfInput(ParseChars(t, 1, Len(t), NoParse))

RECURSIVE Doubled(_, _, _)
\* the characters lo..hi of a field with every '"' written twice
Doubled(f, lo, hi) ==
    IF lo > hi THEN <<>>
    ELSE IF lo = hi THEN (IF f[lo] = Quote THEN <<Quote, Quote>> ELSE <<f[lo]>>)
    ELSE Doubled(f, lo, (lo + hi) \div 2) \o Doubled(f, ((lo + hi) \div 2) + 1, hi)

\* join_append_data, QUOTE_MINIMAL: a field that holds the delimiter, the
\* quotechar or a character of the line terminator is written in quotes
WriteField(f) ==
    IF \E i \in 1..Len(f) : f[i] \in {Comma, Quote, CR, LF}
    THEN <<Quote>> \o Doubled(f, 1, Len(f)) \o <<Quote>>
    ELSE f

\* lines 27 and 40: csv.writer's writerow; the line ends with "\r\n", and a
\* row of one empty field is written as '""'
CsvWriteRow(row) ==
    (IF row = << <<>> >> THEN <<Quote, Quote>>
     ELSE Join([i \in 1..Len(row) |-> WriteField(row[i])], Comma)) \o <<CR, LF>>

\* line 21: ",".join(HEADERS) + "\n"
HeaderOnly == Join(HEADERS, Comma) \o <<LF>>

\* a row that is padded and never cut
PadOnly(row) ==
    IF Len(row) < 6 THEN row \o [i \in 1..(6 - Len(row)) |-> <<>>] ELSE row

\* lines 36-39: pad or truncate to 6 fields
PadOrTruncate(row) ==
    IF Len(row) < 6 THEN row \o [i \in 1..(6 - Len(row)) |-> <<>>]
    ELSE IF Len(row) > 6 THEN SubSeq(row, 1, 6)
    ELSE row

\* lines 32-34: the rows that are not empty
NonEmptyRows(rows) == SelectSeq(rows, LAMBDA row : row # <<>>)

\* lines 32-39: the rows of the reader as they are handed to the writer
Normalised(rows) == [i \in 1..Len(rows) |-> PadOrTruncate(rows[i])]

\* lines 32-41: the rows written for the rows of a reader p
WriterRows(p) == [rows |-> Normalised(NonEmptyRows(p.rows)), raised |-> p.raised]

\* lines 30-41: the rows written for one input file, and whether the reader
\* raised after them
MasterRowsOf(t) == WriterRows(CsvReader(t))

\* the rows of the file first, then the rows of the files after it unless the
\* reader raised
Then(first, rest) ==
    IF first.raised THEN first
    ELSE [rows |-> first.rows \o rest.rows, raised |-> rest.raised]

RECURSIVE MasterRows(_)
\* lines 29-41: the rows written for the files, in the order of the sort, up to
\* the first file the reader raised on
MasterRows(fs) ==
    IF fs = <<>> THEN [rows |-> <<>>, raised |-> FALSE]
    ELSE Then(MasterRowsOf(fs[1]), MasterRows(Tail(fs)))

RECURSIVE WrittenRows(_)
\* the text the writer has written for the rows
WrittenRows(rows) ==
    IF rows = <<>> THEN <<>> ELSE CsvWriteRow(rows[1]) \o WrittenRows(Tail(rows))

\* pieces of cleaned CSV files that end with a line, each with the rows
\* csv.reader gives for it and the text csv.writer writes for these rows after
\* padding and cutting:
\*   "\n"                       []                      nothing
\*   "7\n"                      ["7"]                   7,,,,,
\*   "1,2,,4,5,6\r\n"           6 fields                1,2,,4,5,6
\*   "1,2,3,4,5,6,7\n"          7 fields                1,2,3,4,5,6
\*   '1,2,3,4,5,"6,7"\n'        6 fields, the last 6,7  1,2,3,4,5,"6,7"
\*   '"a,b",c\n'                a,b and c               "a,b",c,,,,
\*   '"x\ny","q""r"\n'          x\ny and q"r            "x\ny","q""r",,,,
\*   'a"b,"c"d\n'               a"b and cd              "a""b",cd,,,,
CsvPieces ==
    {[text |-> <<LF>>, rows |-> << <<>> >>, out |-> <<>>],
     [text |-> <<55, LF>>, rows |-> << << <<55>>>> >>,
      out |-> <<55, 44, 44, 44, 44, 44, CR, LF>>],
     [text |-> <<49, 44, 50, 44, 44, 52, 44, 53, 44, 54, CR, LF>>,
      rows |-> << << <<49>>, <<50>>, <<>>, <<52>>, <<53>>, <<54>> >> >>,
      out |-> <<49, 44, 50, 44, 44, 52, 44, 53, 44, 54, CR, LF>>],
     [text |-> <<49, 44, 50, 44, 51, 44, 52, 44, 53, 44, 54, 44, 55, LF>>,
      rows |-> << << <<49>>, <<50>>, <<51>>, <<52>>, <<53>>, <<54>>, <<55>> >> >>,
      out |-> <<49, 44, 50, 44, 51, 44, 52, 44, 53, 44, 54, CR, LF>>],
     [text |-> <<49, 44, 50, 44, 51, 44, 52, 44, 53, 44, 34, 54, 44, 55, 34, LF>>,
      rows |-> << << <<49>>, <<50>>, <<51>>, <<52>>, <<53>>, <<54, 44, 55>> >> >>,
      out |-> <<49, 44, 50, 44, 51, 44, 52, 44, 53, 44, 34, 54, 44, 55, 34, CR, LF>>],
     [text |-> <<34, 97, 44, 98, 34, 44, 99, LF>>,
      rows |-> << << <<97, 44, 98>>, <<99>> >> >>,
      out |-> <<34, 97, 44, 98, 34, 44, 99, 44, 44, 44, 44, CR, LF>>],
     [text |-> <<34, 120, LF, 121, 34, 44, 34, 113, 34, 34, 114, 34, LF>>,
      rows |-> << << <<120, LF, 121>>, <<113, 34, 114>> >> >>,
      out |-> <<34, 120, LF, 121, 34, 44, 34, 113, 34, 34, 114, 34, 44, 44, 44, 44, CR, LF>>],
     [text |-> <<97, 34, 98, 44, 34, 99, 34, 100, LF>>,
      rows |-> << << <<97, 34, 98>>, <<99, 100>> >> >>,
      out |-> <<34, 97, 34, 34, 98, 34, 44, 99, 100, 44, 44, 44, 44, CR, LF>>]}

\* the ends of cleaned CSV files after the last complete line:
\*   ""                         no row                  nothing
\*   "8"                        ["8"]                   8,,,,,
\*   '9,"z\n'                   9 and z\n               9,"z\n",,,,
CsvTails ==
    {[text |-> <<>>, rows |-> <<>>, out |-> <<>>],
     [text |-> <<56>>, rows |-> << << <<56>>>> >>,
      out |-> <<56, 44, 44, 44, 44, 44, CR, LF>>],
     [text |-> <<57, 44, 34, 122, LF>>,
      rows |-> << << <<57>>, <<122, LF>> >> >>,
      out |-> <<57, 44, 34, 122, LF, 34, 44, 44, 44, 44, CR, LF>>]}

\* the cleaned CSV files: up to MaxCsvRows pieces and an end
CsvFiles ==
    UNION {[pieces : [1..n -> CsvPieces], tail : CsvTails] : n \in 0..MaxCsvRows}

\* a file whose second record holds a field of one character more than the
\* field limit: the reader gives the row ["7"] and raises
LongFieldFile ==
    [pieces |-> <<[text |-> <<55, LF>> \o [i \in 1..(FieldLimit + 1) |-> 97] \o <<LF>>,
                   rows |-> << << <<55>>>> >>,
                   out |-> <<55, 44, 44, 44, 44, 44, CR, LF>>]>>,
     tail |-> [text |-> <<>>, rows |-> <<>>, out |-> <<>>]]

\* a file whose only field holds as many characters as the field limit allows
FullFieldFile ==
    [pieces |-> <<[text |-> [i \in 1..FieldLimit |-> 97] \o <<LF>>,
                   rows |-> << <<[i \in 1..FieldLimit |-> 97]>> >>,
                   out |-> [i \in 1..FieldLimit |-> 97] \o <<44, 44, 44, 44, 44, CR, LF>>]>>,
     tail |-> [text |-> <<>>, rows |-> <<>>, out |-> <<>>]]

\* the text of a file
InputText(f) == JoinTexts([i \in 1..Len(f.pieces) |-> f.pieces[i].text]) \o f.tail.text

\* the texts of the files
InputTexts(fs) == [i \in 1..Len(fs) |-> InputText(fs[i])]

NoMaster == [exists |-> FALSE, text |-> <<>>]

InitMaster ==
    /\ prog = "master"
    /\ \E fs \in UNION {[1..n -> CsvFiles] : n \in 0..MaxCsvFiles}
                    \cup {<<LongFieldFile>>, <<FullFieldFile>>} :
          ms = [files |-> fs, out |-> NoMaster, rows |-> <<>>, ret |-> 0,
                done |-> FALSE, raised |-> FALSE]
    /\ MergeOff /\ ConvertOff /\ NormalizeOff /\ ExtractOff /\ SampleOff
    /\ PeriodOff /\ DownloadOff /\ WritersOff /\ SortProbeOff
    /\ ParseOff /\ AggregateOff /\ ProcDateOff

\* lines 24-43 for the rows r of the files: the header and the rows are
\* written, and the count is returned unless the reader raised
WriteMaster(r) ==
    [ms EXCEPT !.out = [exists |-> TRUE, text |-> CsvWriteRow(HEADERS) \o WrittenRows(r.rows)],
               !.rows = r.rows,
               !.ret = IF r.raised THEN 0 ELSE Len(r.rows),
               !.raised = r.raised,
               !.done = TRUE]

\* lines 14-43
BuildMaster ==
    /\ prog = "master"
    /\ ~ms.done
    /\ ms' = IF ms.files = <<>>
             THEN [ms EXCEPT !.out = [exists |-> TRUE, text |-> HeaderOnly],
                             !.ret = 0, !.done = TRUE]
             ELSE WriteMaster(MasterRows(InputTexts(ms.files)))
    /\ UNCHANGED <<prog, notMaster>>

NextMaster == BuildMaster

SpecMaster == InitMaster /\ [][NextMaster]_vars

\* the rows the annotations give for a file
FileRows(f) ==
    JoinTexts([i \in 1..Len(f.pieces) |-> f.pieces[i].rows]) \o f.tail.rows

\* the text the annotations give for the rows written for a file
FileOut(f) ==
    JoinTexts([i \in 1..Len(f.pieces) |-> f.pieces[i].out]) \o f.tail.out

\* "SETTLEMENT DATE,CUSIP,SYMBOL,QUANTITY (FAILS),DESCRIPTION,PRICE"
FixedHeader ==
    <<83, 69, 84, 84, 76, 69, 77, 69, 78, 84, 32, 68, 65, 84, 69, 44,
      67, 85, 83, 73, 80, 44, 83, 89, 77, 66, 79, 76, 44,
      81, 85, 65, 78, 84, 73, 84, 89, 32, 40, 70, 65, 73, 76, 83, 41, 44,
      68, 69, 83, 67, 82, 73, 80, 84, 73, 79, 78, 44, 80, 82, 73, 67, 69>>

\* C29: after build_master, the master file starts with the header row and
\* every row after it has exactly 6 fields, also when read back from the file;
\* when the call has returned, the rows are, in order, the input rows that are
\* not empty, each padded with empty fields or cut to its first 6, the count
\* returned is the number of these rows, and without input files the file
\* holds the header only and the count is 0.
C29_MasterShape ==
    ms.done =>
        LET input == SelectSeq(JoinTexts([i \in 1..Len(ms.files) |-> FileRows(ms.files[i])]),
                               LAMBDA r : r # <<>>)
            ending == IF ms.files = <<>> THEN <<LF>> ELSE <<CR, LF>>
            expected == JoinTexts([i \in 1..Len(ms.files) |-> FileOut(ms.files[i])])
            start == FixedHeader \o ending
            body == SubSeq(ms.out.text, Len(start) + 1, Len(ms.out.text))
        IN /\ ms.out.exists
           /\ Len(ms.out.text) >= Len(start)
           /\ SubSeq(ms.out.text, 1, Len(start)) = start
           /\ \A i \in 1..Len(ms.rows) : Len(ms.rows[i]) = 6
           /\ CsvReader(body).rows = ms.rows
           /\ ~ms.raised =>
                 /\ ms.out.text = start \o expected
                 /\ ms.ret = Len(ms.rows)
                 /\ Len(ms.rows) = Len(input)
                 /\ \A i \in 1..Len(input) : \A k \in 1..6 :
                       ms.rows[i][k] = IF k <= Len(input[i]) THEN input[i][k] ELSE <<>>
                 /\ ms.files = <<>> => (ms.out.text = FixedHeader \o <<LF>> /\ ms.ret = 0)

\* a quoted field that holds a comma makes a row of 6 fields that is not cut,
\* a row of 7 fields is cut, and a short row with quoted fields is padded
C29_Witness ==
    /\ ms.done /\ ~ms.raised
    /\ Len(ms.files) = 2
    /\ InputText(ms.files[1])
          = <<49, 44, 50, 44, 51, 44, 52, 44, 53, 44, 34, 54, 44, 55, 34, LF,
              49, 44, 50, 44, 51, 44, 52, 44, 53, 44, 54, 44, 55, LF>>
    /\ InputText(ms.files[2]) = <<34, 120, LF, 121, 34, 44, 34, 113, 34, 34, 114, 34, LF, 56>>
    /\ ms.ret = 4
    /\ ms.rows[1] = << <<49>>, <<50>>, <<51>>, <<52>>, <<53>>, <<54, 44, 55>> >>
    /\ ms.rows[2] = << <<49>>, <<50>>, <<51>>, <<52>>, <<53>>, <<54>> >>
    /\ ms.rows[3] = << <<120, LF, 121>>, <<113, 34, 114>>, <<>>, <<>>, <<>>, <<>> >>
    /\ ms.rows[4] = << <<56>>, <<>>, <<>>, <<>>, <<>>, <<>> >>

====
